---------------------------- MODULE Spec2Model ----------------------------
(***************************************************************************)
(* A model of the blood-test analyser's classification core                *)
(* (src/modules/analyzer.py).                                              *)
(*                                                                         *)
(* Text is modelled as sequences of one-character strings, so that the     *)
(* code's parsing (strip, float, isdigit, the range regular expression)    *)
(* is computed and not assumed.                                            *)
(*                                                                         *)
(* Numbers are Python floats in the code, and floats in the model: IEEE    *)
(* 754 binary64 values, computed on whole numbers of any size, with        *)
(* float() reading a decimal numeral to the nearest float and every        *)
(* product, sum and difference rounded as the hardware rounds it, so that  *)
(* 3 * 1.1 is 3.3000000000000003 and a value of 3.3 lies inside the band.  *)
(* The alphabet holds the characters of ASCII, and of Unicode the          *)
(* whitespace, the digits of one further script, the superscript digits    *)
(* and a sample of letters with case.                                      *)
(***************************************************************************)
EXTENDS Integers, Sequences, FiniteSets, TLC

VARIABLES
    \* ---- Analyzer.analyze (specification Spec) ----
    healthy_data,    \* the catalog loaded by Analyzer.__init__
    raw_data,        \* the argument of analyze: test name -> raw string
    pc,              \* "idle" before the call, "done" after it returned / raised
    status_dict,     \* analyze's first result
    summary_lines,   \* analyze's second result, before the "\n".join
    calls,           \* per test name: which parsing steps analyze attempted
    raised,          \* TRUE iff analyze ended by raising
    \* ---- Analyzer.get_status_color (specification SpecColor) ----
    user_val_num,    \* the measured value, a float
    healthy_str,
    min_str,
    max_str,
    tolerance,       \* a float, 0.10 by default
    color,           \* outcome of get_status_color: a status or a raised exception
    status,          \* what analyze's try/except stores for that outcome
    \* ---- Normalizer (specifications SpecResolve and SpecPipeline) ----
    target_keys,     \* Normalizer.target_keys: the canonical names, in catalog order
    alias_map,       \* Normalizer.alias_map: cleaned alias -> name
    input_name,      \* the argument of _find_best_match
    match,           \* what _find_best_match returned
    extracted_data,  \* the argument of normalize: extracted_data["tests"], in order
    normalized_data, \* what normalize returned
    \* ---- concurrent invocations (specification SpecConcurrent) ----
    threads,         \* per thread: the call it runs, its locals and its result
    \* ---- PDFParser (specification SpecParser) ----
    objects,         \* the dicts in memory: reference -> dict
    auto_params,     \* PDFParser.auto_params: a reference to a dict
    returned,        \* the caller's reference to the dict parse last returned, 0 for none
    parsed,          \* the local `parsed` of the last accepted parse
    last_call,       \* the last call on the parser: what, on which path, how it ended
    waiting,         \* the calls of parse that wait in dlg.exec(), the innermost last
    \* ---- PDFSelectionDialog (specification SpecDialog) ----
    dialog,          \* the dialog object: its fields, its canvas, how it was closed
    drawn,           \* per page: the rectangles the user drew and has not deleted
    \* ---- BloodAnalyzerApp (specification SpecApp) ----
    app,             \* the window's fields and the parser data it holds
    ui_effect,       \* what the last step of the window showed or invoked
    fresh            \* TRUE iff a Submit gave a non-empty result and no Clear All followed

vars == <<healthy_data, raw_data, pc, status_dict, summary_lines, calls, raised,
          user_val_num, healthy_str, min_str, max_str, tolerance, color, status,
          target_keys, alias_map, input_name, match, extracted_data, normalized_data,
          threads, objects, auto_params, returned, parsed, last_call, waiting,
          dialog, drawn, app, ui_effect, fresh>>

threadVars == <<threads>>

parserVars == <<objects, auto_params, returned, parsed, last_call, waiting>>

dialogVars == <<dialog, drawn>>

appVars == <<app, ui_effect, fresh>>

uiVars == <<dialog, drawn, app, ui_effect, fresh>>

normVars == <<target_keys, alias_map, input_name, match, extracted_data, normalized_data>>

analyzeVars == <<healthy_data, raw_data, pc, status_dict, summary_lines, calls, raised>>
colorVars == <<user_val_num, healthy_str, min_str, max_str, tolerance, color, status>>
-----------------------------------------------------------------------------
(* Python values *)

\* Python's None, and a present number.
None == <<>>
Some(n) == <<n>>
Val(x) == x[1]

\* A Python call with npos positional and the given keyword arguments binds to a
\* signature whose parameters (after self) all lack a default: otherwise the call
\* raises TypeError before the body runs.
Binds(parameters, npos, keywords) ==
    /\ npos <= Len(parameters)
    /\ keywords \subseteq {parameters[i] : i \in (npos + 1)..Len(parameters)}
    /\ \A i \in (npos + 1)..Len(parameters) : parameters[i] \in keywords

\* The keyword arguments of PDFParser(...) at line 49 of main.py, and those of a
\* call that binds.
ParserKeywords == {{"llm_client"}, {}}

-----------------------------------------------------------------------------
(* Text *)

\* A character is a one-character string; a character that is not printable
\* ASCII and has no escape of its own is written by its code point, "U+00A0".

\* The ASCII digits.
Digits == {"0", "1", "2", "3", "4", "5", "6", "7", "8", "9"}

AsciiDigits == <<"0", "1", "2", "3", "4", "5", "6", "7", "8", "9">>

\* ARABIC-INDIC DIGIT ZERO..NINE: the decimal digits (category Nd) of one script
\* other than ASCII; float(), int() and the regex \d read them as 0..9.
ArabicIndicDigits == <<"U+0660", "U+0661", "U+0662", "U+0663", "U+0664",
                       "U+0665", "U+0666", "U+0667", "U+0668", "U+0669">>

\* SUPERSCRIPT TWO, THREE, ONE: digits to str.isdigit() that are no decimal
\* digits, so that float() and \d reject them.
SuperscriptDigits == {"U+00B2", "U+00B3", "U+00B9"}

\* str.isdecimal() of one character, the regex \d
IsDecimal(c) ==
    \E d \in 1..10 : c = AsciiDigits[d] \/ c = ArabicIndicDigits[d]

DigitVal(c) ==
    (CHOOSE d \in 1..10 : c = AsciiDigits[d] \/ c = ArabicIndicDigits[d]) - 1

\* str.isspace() of one character: what str.strip() and str.split() remove and
\* the regex \s matches.
Whitespace ==
    {" ", "\t", "\n", "\r", "U+000B", "U+000C", "U+001C", "U+001D", "U+001E",
     "U+001F", "U+0085", "U+00A0", "U+1680", "U+2000", "U+2001", "U+2002",
     "U+2003", "U+2004", "U+2005", "U+2006", "U+2007", "U+2008", "U+2009",
     "U+200A", "U+2028", "U+2029", "U+202F", "U+205F", "U+3000"}

IsSpace(c) == c \in Whitespace

RECURSIVE lstrip(_)
lstrip(s) == IF s # <<>> /\ IsSpace(Head(s)) THEN lstrip(Tail(s)) ELSE s

RECURSIVE rstrip(_)
rstrip(s) ==
    IF s # <<>> /\ IsSpace(s[Len(s)]) THEN rstrip(SubSeq(s, 1, Len(s) - 1)) ELSE s

\* str.strip()
strip(s) == rstrip(lstrip(s))

\* str.isdigit(): non-empty and every character a digit, decimal or not.
isdigit(s) ==
    s # <<>> /\ \A i \in 1..Len(s) : IsDecimal(s[i]) \/ s[i] \in SuperscriptDigits

\* str.replace('.', '', 1): the first "." removed.
RemoveFirstDot(s) ==
    IF \E i \in 1..Len(s) : s[i] = "."
    THEN LET i == CHOOSE k \in 1..Len(s) :
                     s[k] = "." /\ \A j \in 1..(k - 1) : s[j] # "."
         IN SubSeq(s, 1, i - 1) \o SubSeq(s, i + 1, Len(s))
    ELSE s

-----------------------------------------------------------------------------
(* Whole numbers of any size, for the arithmetic of floats: the limbs of the
   number in base 2^LimbBits, least significant first, without leading zero
   limbs; 0 is the empty sequence *)

LimbBits == 14
Base == 16384

Min(a, b) == IF a <= b THEN a ELSE b
Max(a, b) == IF a >= b THEN a ELSE b

RECURSIVE Pow2(_)
Pow2(n) == IF n = 0 THEN 1 ELSE 2 * Pow2(n - 1)

RECURSIVE Bits(_)
Bits(n) == IF n = 0 THEN 0 ELSE 1 + Bits(n \div 2)

Limb(a, i) == IF i <= Len(a) THEN a[i] ELSE 0

\* without the leading zero limbs
BTrim(a) ==
    IF \A i \in 1..Len(a) : a[i] = 0 THEN <<>>
    ELSE SubSeq(a, 1, CHOOSE i \in 1..Len(a) :
                         a[i] # 0 /\ \A j \in (i + 1)..Len(a) : a[j] = 0)

BitLen(a) == IF a = <<>> THEN 0 ELSE (Len(a) - 1) * LimbBits + Bits(a[Len(a)])

\* -1, 0, 1 as a is below, equal to, above b
BCmp(a, b) ==
    IF Len(a) # Len(b) THEN (IF Len(a) < Len(b) THEN 0 - 1 ELSE 1)
    ELSE IF a = b THEN 0
    ELSE LET i == CHOOSE i \in 1..Len(a) :
                     a[i] # b[i] /\ \A j \in (i + 1)..Len(a) : a[j] = b[j]
         IN  IF a[i] < b[i] THEN 0 - 1 ELSE 1

\* Limbs lo..hi of a + b with the carry into limb lo: <<limbs, carry out>>.
\* The limb operations split their range in halves, each half taking the
\* carry of the one before it.
RECURSIVE BAddRange(_, _, _, _, _)
BAddRange(a, b, lo, hi, carry) ==
    IF lo > hi THEN <<<<>>, carry>>
    ELSE IF lo = hi
         THEN <<<<(Limb(a, lo) + Limb(b, lo) + carry) % Base>>,
                (Limb(a, lo) + Limb(b, lo) + carry) \div Base>>
    ELSE LET low == BAddRange(a, b, lo, (lo + hi) \div 2, carry)
             high == BAddRange(a, b, (lo + hi) \div 2 + 1, hi, low[2])
         IN  <<low[1] \o high[1], high[2]>>

BAdd(a, b) ==
    IF a = <<>> THEN b
    ELSE IF b = <<>> THEN a
    ELSE LET sum == BAddRange(a, b, 1, Max(Len(a), Len(b)), 0)
         IN  IF sum[2] = 0 THEN sum[1] ELSE Append(sum[1], sum[2])

RECURSIVE BSubRange(_, _, _, _, _)
BSubRange(a, b, lo, hi, borrow) ==
    IF lo > hi THEN <<<<>>, borrow>>
    ELSE IF lo = hi
         THEN <<<<(a[lo] - Limb(b, lo) - borrow + Base) % Base>>,
                IF a[lo] - Limb(b, lo) - borrow < 0 THEN 1 ELSE 0>>
    ELSE LET low == BSubRange(a, b, lo, (lo + hi) \div 2, borrow)
             high == BSubRange(a, b, (lo + hi) \div 2 + 1, hi, low[2])
         IN  <<low[1] \o high[1], high[2]>>

\* a - b for a >= b
BSub(a, b) ==
    IF b = <<>> THEN a ELSE BTrim(BSubRange(a, b, 1, Len(a), 0)[1])

RECURSIVE BMulSmallRange(_, _, _, _, _)
BMulSmallRange(a, m, lo, hi, carry) ==
    IF lo > hi THEN <<<<>>, carry>>
    ELSE IF lo = hi
         THEN <<<<(a[lo] * m + carry) % Base>>, (a[lo] * m + carry) \div Base>>
    ELSE LET low == BMulSmallRange(a, m, lo, (lo + hi) \div 2, carry)
             high == BMulSmallRange(a, m, (lo + hi) \div 2 + 1, hi, low[2])
         IN  <<low[1] \o high[1], high[2]>>

\* a * m for 0 <= m <= Base
BMulSmall(a, m) ==
    IF m = 0 \/ a = <<>> THEN <<>>
    ELSE LET product == BMulSmallRange(a, m, 1, Len(a), 0)
         IN  IF product[2] = 0 THEN product[1]
             ELSE Append(product[1], product[2])

ZeroLimbs(n) == [i \in 1..n |-> 0]

\* a * Base^n
BShiftLimbs(a, n) == IF a = <<>> THEN <<>> ELSE ZeroLimbs(n) \o a

\* a times the number whose limbs are b[lo..hi]
RECURSIVE BMulRange(_, _, _, _)
BMulRange(a, b, lo, hi) ==
    IF lo > hi THEN <<>>
    ELSE IF lo = hi THEN BMulSmall(a, b[lo])
    ELSE BAdd(BMulRange(a, b, lo, (lo + hi) \div 2),
              BShiftLimbs(BMulRange(a, b, (lo + hi) \div 2 + 1, hi),
                          (lo + hi) \div 2 - lo + 1))

BMul(a, b) ==
    IF a = <<>> \/ b = <<>> THEN <<>> ELSE BMulRange(a, b, 1, Len(b))

Reverse(s) == [i \in 1..Len(s) |-> s[Len(s) + 1 - i]]

\* Limbs hi..lo of a divided by d, 0 < d <= Base, with the remainder rem
\* of the limbs above: <<quotient limbs from limb hi down, remainder>>
RECURSIVE BDivSmallRange(_, _, _, _, _)
BDivSmallRange(a, d, lo, hi, rem) ==
    IF lo > hi THEN <<<<>>, rem>>
    ELSE IF lo = hi
         THEN <<<<(rem * Base + a[lo]) \div d>>, (rem * Base + a[lo]) % d>>
    ELSE LET high == BDivSmallRange(a, d, (lo + hi) \div 2 + 1, hi, rem)
             low == BDivSmallRange(a, d, lo, (lo + hi) \div 2, high[2])
         IN  <<high[1] \o low[1], low[2]>>

\* <<a \div d, a % d>>
BDivSmall(a, d) ==
    LET qr == BDivSmallRange(a, d, 1, Len(a), 0)
    IN  <<BTrim(Reverse(qr[1])), qr[2]>>

\* a * 2^n
BShl(a, n) ==
    IF a = <<>> THEN <<>>
    ELSE BShiftLimbs(BMulSmall(a, Pow2(n % LimbBits)), n \div LimbBits)

\* a \div 2^n
BShr(a, n) ==
    IF n \div LimbBits >= Len(a) THEN <<>>
    ELSE BDivSmall(SubSeq(a, n \div LimbBits + 1, Len(a)), Pow2(n % LimbBits))[1]

\* the largest d in lo..hi with d * t <= a, given lo * t <= a
RECURSIVE QuotientLimb(_, _, _, _)
QuotientLimb(a, t, lo, hi) ==
    IF lo = hi THEN lo
    ELSE IF BCmp(BMulSmall(t, (lo + hi + 1) \div 2), a) <= 0
         THEN QuotientLimb(a, t, (lo + hi + 1) \div 2, hi)
    ELSE QuotientLimb(a, t, lo, (lo + hi + 1) \div 2 - 1)

\* cur divided by t > 0, the quotient q being below Base: <<<<q>>, remainder>>
WithQuotient(cur, t, q) == <<<<q>>, BSub(cur, BMulSmall(t, q))>>

DivideLimb(cur, t) ==
    WithQuotient(cur, t, IF BCmp(cur, t) < 0 THEN 0
                         ELSE QuotientLimb(cur, t, 1, Base - 1))

\* Long division of limbs hi..lo of a by t > 0, with the remainder rem < t
\* of the limbs above: <<quotient limbs from limb hi down, remainder>>
RECURSIVE BDivRange(_, _, _, _, _)
BDivRange(a, t, lo, hi, rem) ==
    IF lo > hi THEN <<<<>>, rem>>
    ELSE IF lo = hi THEN DivideLimb(BTrim(<<a[lo]>> \o rem), t)
    ELSE LET high == BDivRange(a, t, (lo + hi) \div 2 + 1, hi, rem)
             low == BDivRange(a, t, lo, (lo + hi) \div 2, high[2])
         IN  <<high[1] \o low[1], low[2]>>

\* <<a \div t, a % t>>
BDiv(a, t) ==
    IF BCmp(a, t) < 0 THEN <<<<>>, a>>
    ELSE LET qr == BDivRange(a, t, 1, Len(a), <<>>)
         IN  <<BTrim(Reverse(qr[1])), qr[2]>>

\* 10^p
RECURSIVE BPow10(_)
BPow10(p) ==
    IF p = 0 THEN <<1>>
    ELSE IF p % 2 = 1 THEN BMulSmall(BPow10(p - 1), 10)
    ELSE LET half == BPow10(p \div 2) IN BMul(half, half)

-----------------------------------------------------------------------------
(* Python floats: IEEE 754 binary64, every operation rounded to nearest, ties
   to even.  A finite non-zero float is sign * mant * 2^exp with
   mant < 2^MantBits and either mant >= 2^(MantBits - 1) or exp = MinExp (a
   subnormal), so that equal numbers are equal records; 0.0 and -0.0 compare
   equal in Python and are one value here *)

MantBits == 53
MinExp == 0 - 1074
MaxBits == 1024

Zero == [kind |-> "finite", sign |-> 0, exp |-> 0, mant |-> <<>>]
Inf(s) == [kind |-> "inf", sign |-> s, exp |-> 0, mant |-> <<>>]
NaN == [kind |-> "nan", sign |-> 0, exp |-> 0, mant |-> <<>>]

Finite(s, m, e) ==
    IF m = <<>> THEN Zero
    ELSE IF e + BitLen(m) > MaxBits THEN Inf(s)
    ELSE [kind |-> "finite", sign |-> s, exp |-> e, mant |-> m]

\* The float nearest to s * (n + f) * 2^k, ties to even, where 0 <= f < 1
\* and sticky says that f > 0 (then n has more than MantBits bits).
\* q rounded: c is -1, 0, 1 as the part dropped from n is below, equal to, above
\* one half of the last place.
RoundedUp(q, c, sticky) ==
    IF c > 0 \/ (c = 0 /\ (sticky \/ Limb(q, 1) % 2 = 1)) THEN BAdd(q, <<1>>)
    ELSE q

\* sign s, m * 2^e, where rounding up may have given m one bit too many
Renormalized(s, m, e) ==
    Finite(s, IF BitLen(m) > MantBits THEN BShr(m, 1) ELSE m,
              IF BitLen(m) > MantBits THEN e + 1 ELSE e)

RoundQuotient(s, n, k, sticky, r, q) ==
    Renormalized(s, RoundedUp(q, BCmp(BSub(n, BShl(q, r)), BShl(<<1>>, r - 1)),
                              sticky),
                 k + r)

RoundDropping(s, n, k, sticky, r) == RoundQuotient(s, n, k, sticky, r, BShr(n, r))

RoundToFloat(s, n, k, sticky) ==
    IF n = <<>> THEN Zero
    ELSE IF Max(BitLen(n) - MantBits, MinExp - k) > 0
         THEN RoundDropping(s, n, k, sticky,
                            Max(BitLen(n) - MantBits, MinExp - k))
    ELSE Finite(s, BShl(n, Min(MantBits - BitLen(n), k - MinExp)),
                k - Min(MantBits - BitLen(n), k - MinExp))

FloatNeg(a) == [a EXCEPT !.sign = 0 - a.sign]

FloatMul(a, b) ==
    IF a.kind = "nan" \/ b.kind = "nan" THEN NaN
    ELSE IF a.kind = "inf" \/ b.kind = "inf"
         THEN (IF a.sign * b.sign = 0 THEN NaN ELSE Inf(a.sign * b.sign))
    ELSE IF a.sign * b.sign = 0 THEN Zero
    ELSE RoundToFloat(a.sign * b.sign, BMul(a.mant, b.mant),
                      a.exp + b.exp, FALSE)

\* sa * x * 2^e + sb * y * 2^e: the sign is that of the larger magnitude, and
\* equal magnitudes of opposite signs give 0.
AddMagnitudes(sa, x, sb, y, e, c) ==
    RoundToFloat(IF sa = sb \/ c > 0 THEN sa ELSE sb,
                 IF sa = sb THEN BAdd(x, y)
                 ELSE IF c = 0 THEN <<>>
                 ELSE IF c > 0 THEN BSub(x, y)
                 ELSE BSub(y, x),
                 e, FALSE)

AddAligned(sa, x, sb, y, e) == AddMagnitudes(sa, x, sb, y, e, BCmp(x, y))

FloatAdd(a, b) ==
    IF a.kind = "nan" \/ b.kind = "nan" THEN NaN
    ELSE IF a.kind = "inf"
         THEN (IF b.kind = "inf" /\ b.sign # a.sign THEN NaN ELSE a)
    ELSE IF b.kind = "inf" THEN b
    ELSE IF a.sign = 0 THEN b
    ELSE IF b.sign = 0 THEN a
    ELSE AddAligned(a.sign, BShl(a.mant, a.exp - Min(a.exp, b.exp)),
                    b.sign, BShl(b.mant, b.exp - Min(a.exp, b.exp)),
                    Min(a.exp, b.exp))

FloatSub(a, b) == FloatAdd(a, FloatNeg(b))

\* -1, 0, 1 as the magnitude of a is below, equal to, above that of b
MagCmp(a, b) ==
    IF a.kind = "inf" \/ b.kind = "inf"
    THEN (IF a.kind = b.kind THEN 0 ELSE IF b.kind = "inf" THEN 0 - 1 ELSE 1)
    ELSE IF a.exp # b.exp THEN (IF a.exp < b.exp THEN 0 - 1 ELSE 1)
    ELSE BCmp(a.mant, b.mant)

FloatCmp(a, b) ==
    IF a.sign # b.sign THEN (IF a.sign < b.sign THEN 0 - 1 ELSE 1)
    ELSE a.sign * MagCmp(a, b)

Ordered(a, b) == a.kind # "nan" /\ b.kind # "nan"
FloatLE(a, b) == Ordered(a, b) /\ FloatCmp(a, b) <= 0
FloatGE(a, b) == Ordered(a, b) /\ FloatCmp(a, b) >= 0
FloatLT(a, b) == Ordered(a, b) /\ FloatCmp(a, b) < 0
FloatGT(a, b) == Ordered(a, b) /\ FloatCmp(a, b) > 0
FloatEQ(a, b) == Ordered(a, b) /\ FloatCmp(a, b) = 0

\* float(n) of a Python int with |n| < 2^28
FloatOfInt(n) ==
    IF n = 0 THEN Zero
    ELSE RoundToFloat(IF n < 0 THEN 0 - 1 ELSE 1,
                      LET a == IF n < 0 THEN 0 - n ELSE n
                      IN  BTrim(<<a % Base, a \div Base>>), 0, FALSE)
-----------------------------------------------------------------------------
(* float(str) *)

\* index of the first element of s that is in chars, 0 when there is none
FirstIndex(s, chars) ==
    IF \E i \in 1..Len(s) : s[i] \in chars
    THEN CHOOSE i \in 1..Len(s) :
            s[i] \in chars /\ \A j \in 1..(i - 1) : s[j] \notin chars
    ELSE 0

\* digits, single underscores allowed between two digits
IsDigitRun(s) ==
    /\ s # <<>>
    /\ IsDecimal(s[1]) /\ IsDecimal(s[Len(s)])
    /\ \A i \in 1..Len(s) : IsDecimal(s[i]) \/ s[i] = "_"
    /\ \A i \in 1..(Len(s) - 1) : ~(s[i] = "_" /\ s[i + 1] = "_")

Unsigned(s) == IF s # <<>> /\ s[1] \in {"+", "-"} THEN Tail(s) ELSE s
SignOf(s) == IF s # <<>> /\ s[1] = "-" THEN 0 - 1 ELSE 1

MantissaPart(s) ==
    IF FirstIndex(s, {"e", "E"}) = 0 THEN s
    ELSE SubSeq(s, 1, FirstIndex(s, {"e", "E"}) - 1)
ExponentPart(s) ==
    IF FirstIndex(s, {"e", "E"}) = 0 THEN <<>>
    ELSE SubSeq(s, FirstIndex(s, {"e", "E"}) + 1, Len(s))
HasExponent(s) == FirstIndex(s, {"e", "E"}) # 0
IntPart(m) ==
    IF FirstIndex(m, {"."}) = 0 THEN m
    ELSE SubSeq(m, 1, FirstIndex(m, {"."}) - 1)
FracPart(m) ==
    IF FirstIndex(m, {"."}) = 0 THEN <<>>
    ELSE SubSeq(m, FirstIndex(m, {"."}) + 1, Len(m))

\* digits before and after the point, one of the two may be missing
IsMantissa(int, frac) ==
    /\ int = <<>> \/ IsDigitRun(int)
    /\ frac = <<>> \/ IsDigitRun(frac)
    /\ int # <<>> \/ frac # <<>>

IsDecimalLiteral(s) ==
    /\ IsMantissa(IntPart(MantissaPart(s)), FracPart(MantissaPart(s)))
    /\ HasExponent(s) => IsDigitRun(Unsigned(ExponentPart(s)))

UpperOf(c) ==
    CASE c = "a" -> "A" [] c = "f" -> "F" [] c = "i" -> "I"
      [] c = "n" -> "N" [] c = "t" -> "T" [] c = "y" -> "Y"

SpellsNoCase(s, word) ==
    /\ Len(s) = Len(word)
    /\ \A i \in 1..Len(s) : s[i] = word[i] \/ s[i] = UpperOf(word[i])

IsInfLiteral(s) ==
    \/ SpellsNoCase(s, <<"i", "n", "f">>)
    \/ SpellsNoCase(s, <<"i", "n", "f", "i", "n", "i", "t", "y">>)
IsNanLiteral(s) == SpellsNoCase(s, <<"n", "a", "n">>)

\* float() strips the whitespace of str.isspace() except the four ASCII
\* separators FS, GS, RS, US
FloatSpace == Whitespace \ {"U+001C", "U+001D", "U+001E", "U+001F"}
RECURSIVE FloatStrip(_)
FloatStrip(s) ==
    IF s # <<>> /\ s[1] \in FloatSpace THEN FloatStrip(Tail(s))
    ELSE IF s # <<>> /\ s[Len(s)] \in FloatSpace
         THEN FloatStrip(SubSeq(s, 1, Len(s) - 1))
    ELSE s

IsFloatLiteral(u) == IsDecimalLiteral(u) \/ IsInfLiteral(u) \/ IsNanLiteral(u)

FloatParses(s) == IsFloatLiteral(Unsigned(FloatStrip(s)))

DigitsOnly(s) == SelectSeq(s, IsDecimal)

RECURSIVE DropZeros(_)
DropZeros(s) ==
    IF s # <<>> /\ DigitVal(s[1]) = 0 THEN DropZeros(Tail(s)) ELSE s

RECURSIVE BigOfDigits(_, _)
BigOfDigits(s, acc) ==
    IF s = <<>> THEN acc
    ELSE IF acc = <<>>
         THEN BigOfDigits(Tail(s), IF DigitVal(s[1]) = 0 THEN <<>>
                                   ELSE <<DigitVal(s[1])>>)
    ELSE BigOfDigits(Tail(s),
                     BAdd(BMulSmall(acc, 10),
                          IF DigitVal(s[1]) = 0 THEN <<>> ELSE <<DigitVal(s[1])>>))

RECURSIVE SmallOfDigits(_, _)
SmallOfDigits(s, acc) ==
    IF s = <<>> THEN acc ELSE SmallOfDigits(Tail(s), acc * 10 + DigitVal(s[1]))

\* exponents beyond the range of floats all behave like this one
ExponentCap == 99999

CappedExponent(digits) ==
    IF Len(digits) > 5 THEN ExponentCap ELSE SmallOfDigits(digits, 0)

ExponentVal(s) == SignOf(s) * CappedExponent(DropZeros(DigitsOnly(s)))

\* n * t for p >= 0 and n / t for p < 0 as <<q, k, sticky>>: the number is
\* (q + f) * 2^k with 0 <= f < 1, and sticky says that f > 0.  The dividend is
\* scaled by a power of two that leaves a quotient of more than MantBits bits.
QuotientParts(qr, shift) == <<qr[1], 0 - shift, qr[2] # <<>>>>

ScaledQuotient(n, t, shift) == QuotientParts(BDiv(BShl(n, shift), t), shift)

Scaled(n, t, p) ==
    IF p >= 0 THEN <<BMul(n, t), 0, FALSE>>
    ELSE ScaledQuotient(n, t, Max(0, MantBits + 3 + BitLen(t) - BitLen(n)))

RoundScaled(sign, parts) == RoundToFloat(sign, parts[1], parts[2], parts[3])

\* The float nearest to sign * digits * 10^p.
DecimalToFloat(sign, digits, p) ==
    IF digits = <<>> THEN Zero
    ELSE IF p + Len(digits) > 310 THEN Inf(sign)
    ELSE IF p + Len(digits) < 0 - 330 THEN Zero
    ELSE RoundScaled(sign, Scaled(BigOfDigits(digits, <<>>),
                                  BPow10(IF p >= 0 THEN p ELSE 0 - p), p))

MantissaValue(sign, int, frac, e) ==
    DecimalToFloat(sign, DropZeros(int \o frac), e - Len(frac))

SplitValue(sign, m, e) ==
    MantissaValue(sign, DigitsOnly(IntPart(m)), DigitsOnly(FracPart(m)), e)

DecimalLiteralValue(sign, s) ==
    SplitValue(sign, MantissaPart(s), ExponentVal(ExponentPart(s)))

\* float(s) for a string with FloatParses(s)
LiteralValue(sign, u) ==
    IF IsNanLiteral(u) THEN NaN
    ELSE IF IsInfLiteral(u) THEN Inf(sign)
    ELSE DecimalLiteralValue(sign, u)

SignedLiteralValue(s) == LiteralValue(SignOf(s), Unsigned(s))

FloatValue(s) == SignedLiteralValue(FloatStrip(s))

\* Analyzer._try_float: the float, or None on ValueError.
try_float(s) == IF FloatParses(s) THEN Some(FloatValue(s)) ELSE None

\* The numbers the code writes: the ints 0, 1, 2 and 10 become floats where they
\* meet a float, and 0.1, 0.5 and 1.5 are the floats nearest to these decimals.
One == FloatOfInt(1)
Ten == FloatOfInt(10)
Tenth == FloatValue(<<"0", ".", "1">>)
Half == FloatValue(<<"0", ".", "5">>)
OneAndHalf == FloatValue(<<"1", ".", "5">>)

\* a / 2: a division by two and a multiplication by 0.5 have the same exact result,
\* and so the same rounded one.
Halved(a) == FloatMul(a, Half)

\* The default of the parameter `tolerance`, the float 0.10.
DefaultTolerance == FloatValue(<<"0", ".", "1", "0">>)

-----------------------------------------------------------------------------
(* Analyzer.get_status_color *)

\* U+2013 EN DASH, one character of the text.
EnDash == "en-dash"

Dashes == {"-", EnDash}

\* \d+
IsDecimalRun(s) == s # <<>> /\ \A i \in 1..Len(s) : IsDecimal(s[i])

\* \d+(\.\d+)?
IsDecimalToken(s) ==
    \/ IsDecimalRun(s)
    \/ \E i \in 2..(Len(s) - 1) :
          /\ s[i] = "."
          /\ IsDecimalRun(SubSeq(s, 1, i - 1))
          /\ IsDecimalRun(SubSeq(s, i + 1, Len(s)))

\* The positions at which s splits into \s*\d+(\.\d+)?\s* [-–] \s*\d+(\.\d+)?\s*
RangeSplits(s) ==
    {i \in 1..Len(s) :
        /\ s[i] \in Dashes
        /\ IsDecimalToken(strip(SubSeq(s, 1, i - 1)))
        /\ IsDecimalToken(strip(SubSeq(s, i + 1, Len(s))))}

\* re.match(r"^\s*\d+(\.\d+)?\s*[-–]\s*\d+(\.\d+)?\s*$", healthy_str)
IsRange(s) == RangeSplits(s) # {}

\* re.split(r"[-–]", healthy_str) of a string IsRange accepts: parts[0], parts[1].
RangeSplit(s) == CHOOSE k \in RangeSplits(s) : TRUE
RangePart0(s) == SubSeq(s, 1, RangeSplit(s) - 1)
RangePart1(s) == SubSeq(s, RangeSplit(s) + 1, Len(s))

\* float(parts[0]) and float(parts[1]) succeed: \s matches the separators
\* U+001C..U+001F, which float() does not strip.
RangeParses(s) == FloatParses(RangePart0(s)) /\ FloatParses(RangePart1(s))

RangeLow(s) == FloatValue(RangePart0(s))
RangeHigh(s) == FloatValue(RangePart1(s))

\* healthy_str.replace('.', '', 1).isdigit()
IsPlainNumber(s) == isdigit(RemoveFirstDot(s))

startswith(s, c) == s # <<>> /\ Head(s) = c

\* healthy_num * (1 - tolerance) and healthy_num * (1 + tolerance).
LowerWarn(healthy_num, tol) == FloatMul(healthy_num, FloatSub(One, tol))
UpperWarn(healthy_num, tol) == FloatMul(healthy_num, FloatAdd(One, tol))

\* Variant of RangeReference: the warn band taken as 10% around the midpoint, as
\* for the other forms, instead of a tenth of the range inside the bounds.
RangeLimitsAroundMidpoint(low, high, margin, healthy_num) ==
    [form |-> "range",
     min_num |-> Some(FloatSub(low, margin)),
     max_num |-> Some(FloatAdd(high, margin)),
     lower_warn |-> LowerWarn(healthy_num, DefaultTolerance),
     upper_warn |-> UpperWarn(healthy_num, DefaultTolerance),
     healthy_num |-> healthy_num]

RangeBetweenAroundMidpoint(low, high) ==
    RangeLimitsAroundMidpoint(low, high, FloatMul(FloatSub(high, low), Tenth),
                              Halved(FloatAdd(low, high)))

RangeReferenceAroundMidpoint(s) == RangeBetweenAroundMidpoint(RangeLow(s), RangeHigh(s))

\* The four limits of a range: margin is range_diff * 0.1, the product the code
\* writes in each of the four lines.
RangeLimits(low, high, margin) ==
    [form |-> "range",
     min_num |-> Some(FloatSub(low, margin)),
     max_num |-> Some(FloatAdd(high, margin)),
     lower_warn |-> FloatAdd(low, margin),
     upper_warn |-> FloatSub(high, margin),
     healthy_num |-> Halved(FloatAdd(low, high))]

\* range_diff = high - low
RangeBetween(low, high) ==
    RangeLimits(low, high, FloatMul(FloatSub(high, low), Tenth))

\* Case 2: the limits and warn band of a range "low-high".
RangeReference(s) == RangeBetween(RangeLow(s), RangeHigh(s))

\* Variant of LessThanReference: the upper limit at X itself.
LessThanReferenceAtX(x, tol) ==
    [form |-> "point",
     min_num |-> Some(Zero),
     max_num |-> Some(x),
     lower_warn |-> LowerWarn(x, tol),
     upper_warn |-> UpperWarn(x, tol),
     healthy_num |-> x]

\* Case 3: "<X".
LessThanReference(x, tol) ==
    [form |-> "point",
     min_num |-> Some(Zero),
     max_num |-> Some(FloatMul(x, OneAndHalf)),
     lower_warn |-> LowerWarn(x, tol),
     upper_warn |-> UpperWarn(x, tol),
     healthy_num |-> x]

\* Variant of GreaterThanReference: the upper limit at 2*X.
GreaterThanReferenceDouble(x, tol) ==
    [form |-> "point",
     min_num |-> Some(FloatMul(x, Half)),
     max_num |-> Some(FloatMul(x, FloatOfInt(2))),
     lower_warn |-> LowerWarn(x, tol),
     upper_warn |-> UpperWarn(x, tol),
     healthy_num |-> x]

\* Case 4: ">X".
GreaterThanReference(x, tol) ==
    [form |-> "point",
     min_num |-> Some(FloatMul(x, Half)),
     max_num |-> Some(FloatMul(x, Ten)),
     lower_warn |-> LowerWarn(x, tol),
     upper_warn |-> UpperWarn(x, tol),
     healthy_num |-> x]

Manual == [form |-> "manual"]

\* float() of a string that is no float raises ValueError, outside every try.
Raises == [form |-> "raise"]

\* The "no min but has max" default and the warn band around healthy_num.
PointLimits(healthy_num, min0, max0, tol) ==
    [form |-> "point",
     min_num |-> IF min0 = None /\ max0 # None THEN Some(Zero) ELSE min0,
     max_num |-> max0,
     lower_warn |-> LowerWarn(healthy_num, tol),
     upper_warn |-> UpperWarn(healthy_num, tol),
     healthy_num |-> healthy_num]

\* Variant of PointReference: without a healthy number the centre is min, not the
\* midpoint of min and max.
PointReferenceCentreAtMin(healthy0, min0, max0, tol) ==
    IF healthy0 = None /\ (min0 = None \/ max0 = None)
    THEN Manual
    ELSE PointLimits(IF healthy0 = None THEN Val(min0) ELSE Val(healthy0),
                     min0, max0, tol)

\* Variant of PointReference: the centre is the midpoint of min and max whenever
\* both are present, also when a plain healthy number is given.
PointReferenceMidpointFirst(healthy0, min0, max0, tol) ==
    IF healthy0 = None /\ (min0 = None \/ max0 = None)
    THEN Manual
    ELSE PointLimits(IF min0 # None /\ max0 # None
                     THEN Halved(FloatAdd(Val(min0), Val(max0)))
                     ELSE Val(healthy0),
                     min0, max0, tol)

\* Case 1 and Case 5, with the "no min but has max" default: the centre is the
\* plain healthy number, or else the midpoint of min and max.
PointReference(healthy0, min0, max0, tol) ==
    IF healthy0 = None /\ (min0 = None \/ max0 = None)
    THEN Manual
    ELSE PointLimits(IF healthy0 = None
                     THEN Halved(FloatAdd(Val(min0), Val(max0)))
                     ELSE Val(healthy0),
                     min0, max0, tol)

\* Everything get_status_color derives from the three reference strings before it
\* looks at the measured value.  isdigit() accepts digits float() does not, and
\* Case 1 and Case 2 call float() outside a try.
StrippedReference(h, mn, mx, tol) ==
    IF h = <<>> /\ mn = <<>> /\ mx = <<>> THEN Manual
    ELSE IF IsPlainNumber(h)
         THEN IF FloatParses(h)
              THEN PointReference(Some(FloatValue(h)), try_float(mn), try_float(mx), tol)
              ELSE Raises
    ELSE IF IsRange(h)
         THEN IF RangeParses(h) THEN RangeReference(h) ELSE Raises
    ELSE IF startswith(h, "<")
         THEN IF FloatParses(Tail(h)) THEN LessThanReference(FloatValue(Tail(h)), tol)
                                      ELSE Manual
    ELSE IF startswith(h, ">")
         THEN IF FloatParses(Tail(h)) THEN GreaterThanReference(FloatValue(Tail(h)), tol)
                                      ELSE Manual
    ELSE PointReference(None, try_float(mn), try_float(mx), tol)

Reference(hs, mns, mxs, tol) == StrippedReference(strip(hs), strip(mns), strip(mxs), tol)

\* A raised exception, as an outcome.
TypeError == "raise TypeError"
ValueError == "raise ValueError"
IsException(outcome) == outcome \in {TypeError, ValueError}

\* Variant of AtOrBelow: the strict comparison.
StrictlyBelow(v, a) == FloatLT(v, a)

\* user_val_num <= a and user_val_num >= a, as the code writes them: both are
\* false of a nan.
AtOrBelow(v, a) == FloatLE(v, a)
AtOrAbove(v, a) == FloatGE(v, a)

\* The two if/elif/else ladders.  Comparing a float with None raises TypeError; the
\* `or` evaluates its left operand first and stops when it is true.
Decide(v, ref) ==
    IF ref.min_num = None THEN TypeError
    ELSE IF AtOrBelow(v, Val(ref.min_num)) THEN "red"
    ELSE IF ref.max_num = None THEN TypeError
    ELSE IF AtOrAbove(v, Val(ref.max_num)) THEN "red"
    ELSE IF AtOrBelow(v, ref.lower_warn) \/ AtOrAbove(v, ref.upper_warn) THEN "yellow"
    ELSE "green"

NoReferenceStatus == "check manually"

\* Variant of Catches: `except ValueError`, which lets a TypeError through.
CatchesValueErrorOnly(outcome) == outcome = ValueError

\* analyze's try/except around the call: `except Exception` catches every exception
\* and stores "uncheckable".
Catches(outcome) == IsException(outcome)

StatusOfOutcome(outcome) == IF Catches(outcome) THEN "uncheckable" ELSE outcome

-----------------------------------------------------------------------------
(* The inputs of the model: reference strings as a catalog writes them *)

\* Measured values are the floats of the multiples of 0.5 from MinHalf/2 to
\* MaxHalf/2, of some larger ones, of decimals that no float holds exactly, and
\* nan, inf and -inf.
MinHalf == 0 - 2
MaxHalf == 32

DigitChar(d) == AsciiDigits[d + 1]

\* The decimal numeral of a natural number.
RECURSIVE Dec(_)
Dec(n) == IF n < 10 THEN <<DigitChar(n)>> ELSE Dec(n \div 10) \o <<DigitChar(n % 10)>>

\* The numeral of h/2 for a natural h: "5" for 10, "4.5" for 9.
HalfStr(h) == IF h % 2 = 0 THEN Dec(h \div 2) ELSE Dec(h \div 2) \o <<".", "5">>

SignedHalfStr(h) == IF h < 0 THEN <<"-">> \o HalfStr(0 - h) ELSE HalfStr(h)

Pad(s) == <<" ">> \o s \o <<" ">>

IntervalStr(lo, sep, hi) == HalfStr(lo) \o sep \o HalfStr(hi)

IneqStr(op, x) == <<op>> \o HalfStr(x)

\* Reference numbers, in halves: 0, 4.5, 5, 10, 35.
RefHalves == {0, 9, 10, 20, 70}

Seps == {<<"-">>, <<EnDash>>}

\* Plain numbers, among them 3 (whose warn band 3 * 1.1 is not 3.3), a number in
\* Arabic-Indic digits, and a superscript, a digit that is no number.
PlainStrs ==
    {HalfStr(x) : x \in RefHalves}
        \cup {<<"5", ".">>, <<".", "5">>, <<"3">>, <<"U+0663">>, <<"U+00B2">>,
              <<"1", "U+00B3">>}

\* Ranges, among them 0-3 (a tenth of whose width is not 0.3) and ranges written
\* with the digits and the whitespace of Unicode.
IntervalStrs ==
    {IntervalStr(lo, sep, hi) : lo \in RefHalves, sep \in Seps, hi \in RefHalves}
        \cup {Pad(IntervalStr(10, Pad(<<EnDash>>), 20)),
              <<"0", "-", "3">>,
              <<"0", "-", "0", ".", "0", "1">>,
              <<"U+0663", "-", "U+0664">>,
              <<"5", "\r", "-", "1", "0">>,
              <<"5", "U+2009", "-", "U+2009", "1", "0">>,
              <<"5", "U+001C", "-", "1", "0">>}

IneqStrs ==
    {IneqStr(op, x) : op \in {"<", ">"}, x \in RefHalves}
        \cup {<<"<", " ", "5">>, <<"<", "-", "5">>, <<"<", "x">>, <<">">>,
              <<"<", "i", "n", "f">>, <<">", "n", "a", "n">>,
              <<"<", "1", "e", "1">>}

\* Strings that are none of the recognised forms.
OtherStrs == {<<>>, <<"x">>, <<"-", "5">>, <<".">>, <<"5", "-">>,
              <<"5", "-", "1", "0", "-", "2", "0">>, <<"1", "e", "1">>}

HealthyStrs == PlainStrs \cup IntervalStrs \cup IneqStrs \cup OtherStrs

MinHalves == {0 - 8, 4}
MaxHalves == {4, 8, 24, 40}

MinStrs == {<<>>, <<"x">>} \cup {SignedHalfStr(h) : h \in MinHalves}
MaxStrs == {<<>>, SignedHalfStr(4), SignedHalfStr(8), SignedHalfStr(24),
            Pad(SignedHalfStr(40)), <<"1", "e", "1">>}

\* Measured values as a form writes them: the grid of halves, values beyond it
\* that reach the limits of the larger references (1.5*35 = 52.5, and the upper
\* limit 10*X of ">X"), decimals at the edge of a computed band, and the
\* floats that are no finite number.
UserValueStrs ==
    {SignedHalfStr(k) : k \in MinHalf..MaxHalf}
        \cup {HalfStr(v) : v \in {63, 77, 90, 100, 104, 105, 200, 700}}
        \cup {<<"3", ".", "3">>, <<"2", ".", "7">>, <<"-", "0", ".", "3">>,
              <<"0", ".", "3">>, <<"5", ".", "5">>, <<"0", ".", "0", "0", "1">>,
              <<"n", "a", "n">>, <<"i", "n", "f">>, <<"-", "i", "n", "f">>}

UserValues == {FloatValue(s) : s \in UserValueStrs}

Tolerances == {DefaultTolerance, FloatValue(<<"0", ".", "2", "5">>)}

\* The min and max strings a test has beside its healthy value: every pair for a
\* plain number or a string of no form, whose limits they are, and a few pairs for
\* an interval or an inequality.
LimitPairs == {<<mn, mx>> : mn \in MinStrs, mx \in MaxStrs}

FewLimitPairs == {<<<<>>, <<>>>>,
                  <<SignedHalfStr(4), SignedHalfStr(24)>>,
                  <<<<"x">>, Pad(SignedHalfStr(40))>>}

ReferencePool ==
    {<<h, p[1], p[2]>> : h \in PlainStrs \cup OtherStrs, p \in LimitPairs}
        \cup {<<h, p[1], p[2]>> : h \in IntervalStrs \cup IneqStrs, p \in FewLimitPairs}

\* The references of the pools, derived once.
\* The tests of the catalogs the model loads: their references are parsed once.

\* dict.get(key, default)
Get(d, key, default) == IF key \in DOMAIN d THEN d[key] ELSE default

Hemoglobin == <<"H", "e", "m", "o", "g", "l", "o", "b", "i", "n">>
Glucose == <<"G", "l", "u", "c", "o", "s", "e">>
HGB == <<"H", "G", "B">>

\* Test definitions as data/healthy_ranges.json holds them; a key a test does not
\* have is absent from the record.
TestPool ==
    {[name |-> Hemoglobin, units |-> <<"g", "/", "L">>,
      min |-> <<"1", "2", "0">>, max |-> <<"1", "5", "0">>],
     [name |-> Glucose, units |-> <<"m", "M">>,
      healthy_value |-> <<"5">>, min |-> <<"2">>],
     [name |-> Glucose, healthy_value |-> <<"4", "-", "6">>, max |-> <<"x">>],
     [name |-> Hemoglobin]}

Sodium == <<"S", "o", "d", "i", "u", "m">>
Calcium == <<"C", "a", "l", "c", "i", "u", "m">>

\* A panel of four tests, each with a name of its own: two with min and max, one
\* with a range as its healthy value, one without any reference.
Panel ==
    <<[name |-> Hemoglobin, units |-> <<"g", "/", "L">>,
       min |-> <<"1", "2", "0">>, max |-> <<"1", "5", "0">>],
      [name |-> Glucose, units |-> <<"m", "M">>, healthy_value |-> <<"4", "-", "6">>],
      [name |-> Sodium, units |-> <<"m", "M">>,
       min |-> <<"1", "2", "0">>, max |-> <<"1", "5", "0">>],
      [name |-> Calcium]>>

\* The calls whose parsed reference is tabulated: those of the pools, and those
\* analyze makes for the tests of the catalogs.
ReferenceArgs ==
    {<<r[1], r[2], r[3], t>> : r \in ReferencePool, t \in Tolerances}
        \cup {<<Get(t, "healthy_value", <<>>), Get(t, "min", <<>>), Get(t, "max", <<>>),
                DefaultTolerance>> : t \in TestPool \cup {Panel[i] : i \in 1..Len(Panel)}}

KnownReferences == [k \in ReferenceArgs |-> Reference(k[1], k[2], k[3], k[4])]

\* Reference(hs, mns, mxs, tol), taken from the table when the table holds it.
Tabulated(table, hs, mns, mxs, tol) ==
    IF <<hs, mns, mxs, tol>> \in DOMAIN table THEN table[<<hs, mns, mxs, tol>>]
    ELSE Reference(hs, mns, mxs, tol)

ReferenceOf(hs, mns, mxs, tol) == Tabulated(KnownReferences, hs, mns, mxs, tol)

\* The return or the exception that follows the parsing of the reference.
StatusFor(v, ref) ==
    IF ref.form = "manual" THEN NoReferenceStatus
    ELSE IF ref.form = "raise" THEN ValueError
    ELSE Decide(v, ref)

get_status_color(v, hs, mns, mxs, tol) == StatusFor(v, ReferenceOf(hs, mns, mxs, tol))

-----------------------------------------------------------------------------
(* Specification SpecColor: get_status_color on every input of the pools *)

\* The dialog's variables in the specifications that do not use it.
DialogIdle ==
    /\ dialog = [state |-> "unused"]
    /\ drawn = <<>>

\* The window's variables in the specifications that do not use it.
AppIdle ==
    /\ app = [state |-> "unused"]
    /\ ui_effect = [op |-> "unused"]
    /\ fresh = FALSE

\* The PDFParser's variables in the specifications that do not use it.
ParserIdle ==
    /\ objects = <<>>
    /\ auto_params = 0
    /\ returned = 0
    /\ parsed = <<>>
    /\ last_call = [op |-> "unused"]
    /\ waiting = <<>>

\* The Normalizer's variables in the specifications that do not use it.
NormIdle ==
    /\ target_keys = <<>>
    /\ alias_map = <<>>
    /\ input_name = <<>>
    /\ match = <<"(unused)">>
    /\ extracted_data = <<>>
    /\ normalized_data = <<>>
    /\ threads = <<>>
    /\ ParserIdle
    /\ DialogIdle
    /\ AppIdle

AnalyzeIdle ==
    /\ healthy_data = [categories |-> <<>>]
    /\ raw_data = <<>>
    /\ pc = "unused"
    /\ status_dict = <<>>
    /\ summary_lines = <<>>
    /\ calls = <<>>
    /\ raised = FALSE

InitColor ==
    /\ AnalyzeIdle
    /\ NormIdle
    /\ user_val_num \in UserValues
    /\ \E r \in ReferencePool :
          /\ healthy_str = r[1]
          /\ min_str = r[2]
          /\ max_str = r[3]
    /\ tolerance = DefaultTolerance
    /\ color = "pending"
    /\ status = "pending"

\* A direct call get_status_color(user_val_num, healthy_str, min_str, max_str, tol).
GetStatusColor(tol) ==
    /\ color = "pending"
    /\ tolerance' = tol
    /\ color' = get_status_color(user_val_num, healthy_str, min_str, max_str, tol)
    /\ status' = "not stored"
    /\ UNCHANGED <<user_val_num, healthy_str, min_str, max_str>>
    /\ UNCHANGED analyzeVars
    /\ UNCHANGED normVars
    /\ UNCHANGED threadVars
    /\ UNCHANGED parserVars
    /\ UNCHANGED uiVars

\* The call as analyze makes it: default tolerance, inside try/except.
ClassifyInAnalyze ==
    /\ color = "pending"
    /\ color' = get_status_color(user_val_num, healthy_str, min_str, max_str,
                                 DefaultTolerance)
    /\ status' = StatusOfOutcome(color')
    /\ UNCHANGED <<user_val_num, healthy_str, min_str, max_str, tolerance>>
    /\ UNCHANGED analyzeVars
    /\ UNCHANGED normVars
    /\ UNCHANGED threadVars
    /\ UNCHANGED parserVars
    /\ UNCHANGED uiVars

NextColor ==
    \/ \E tol \in Tolerances : GetStatusColor(tol)
    \/ ClassifyInAnalyze

SpecColor == InitColor /\ [][NextColor]_vars

-----------------------------------------------------------------------------
(* Analyzer.analyze *)

\* The tests of the catalog in the order the two nested loops visit them.
RECURSIVE CatalogTests(_)
CatalogTests(categories) ==
    IF categories = <<>> THEN <<>>
    ELSE Head(categories).tests \o CatalogTests(Tail(categories))

\* Variant of UserVal: the raw string without .strip().
UserValUnstripped(raw, test_name) == Get(raw, test_name, <<>>)

\* Variant of UserVal: a test without an entry of its own takes the value of an
\* entry whose key starts with the same letter (an abbreviation of the name).
UserValByInitial(raw, test_name) ==
    IF test_name \in DOMAIN raw THEN strip(raw[test_name])
    ELSE IF \E k \in DOMAIN raw : Head(k) = Head(test_name)
         THEN strip(raw[CHOOSE k \in DOMAIN raw : Head(k) = Head(test_name)])
    ELSE <<>>

\* user_val = raw_data.get(test_name, "").strip()
UserVal(raw, test_name) == strip(Get(raw, test_name, <<>>))

\* The try block: float(user_val), then get_status_color with the default tolerance.
\* The outcome is a status or the exception raised.
TryOutcome(user_val, healthy_val, min_val, max_val) ==
    IF ~FloatParses(user_val) THEN ValueError
    ELSE get_status_color(FloatValue(user_val), healthy_val, min_val, max_val,
                          DefaultTolerance)

\* Variant of StepRecord: the default of "no min but has max" (min taken as 0) is
\* written into the record.
StepRecordMinDefaulted(test, user_val, outcome) ==
    [test_name |-> test.name,
     float_called |-> user_val # <<>>,
     color_called |-> user_val # <<>> /\ FloatParses(user_val),
     uncaught |-> IsException(outcome) /\ ~Catches(outcome),
     record |-> [value |-> user_val,
                 min |-> IF "min" \notin DOMAIN test /\ "max" \in DOMAIN test
                         THEN <<"0">> ELSE Get(test, "min", <<>>),
                 max |-> Get(test, "max", <<>>),
                 units |-> Get(test, "units", <<>>),
                 status |-> StatusOfOutcome(outcome),
                 healthy_value |-> Get(test, "healthy_value", <<>>)]]

\* What one iteration of the loop body produces, given user_val and the outcome
\* of classifying it: the record stored, and, for the properties, whether float(user_val)
\* and get_status_color were reached (float_called, color_called) and whether the
\* except clause let an exception through (uncaught).
StepRecord(test, user_val, outcome) ==
    [test_name |-> test.name,
     float_called |-> user_val # <<>>,
     color_called |-> user_val # <<>> /\ FloatParses(user_val),
     uncaught |-> IsException(outcome) /\ ~Catches(outcome),
     record |-> [value |-> user_val,
                 min |-> Get(test, "min", <<>>),
                 max |-> Get(test, "max", <<>>),
                 units |-> Get(test, "units", <<>>),
                 status |-> StatusOfOutcome(outcome),
                 healthy_value |-> Get(test, "healthy_value", <<>>)]]

\* if not user_val: status = "empty"; else: the try block.
Classify(test, user_val) ==
    IF user_val = <<>> THEN "empty"
    ELSE TryOutcome(user_val, Get(test, "healthy_value", <<>>),
                    Get(test, "min", <<>>), Get(test, "max", <<>>))

StepOf(test, user_val) == StepRecord(test, user_val, Classify(test, user_val))

\* One iteration of the loop body for `test`.
TestStep(test, raw) == StepOf(test, UserVal(raw, test.name))

\* Variant of Store: no record for a test that was not performed.
StoreIfTested(dict, test_name, record) ==
    IF record.status = "empty" THEN dict
    ELSE [n \in DOMAIN dict \cup {test_name} |->
             IF n = test_name THEN record ELSE dict[n]]

\* status_dict[test_name] = {...}
Store(dict, test_name, record) ==
    [n \in DOMAIN dict \cup {test_name} |->
        IF n = test_name THEN record ELSE dict[n]]

\* Variant of Bucket: the name put at the front of the list.
BucketAtFront(list, step, bucket_status) ==
    IF step.record.status = bucket_status THEN <<step.test_name>> \o list ELSE list

\* list.append when the status is the bucket's, else the list as it is.
Bucket(list, step, bucket_status) ==
    IF step.record.status = bucket_status THEN Append(list, step.test_name) ELSE list

EmptyRun ==
    [status_dict |-> <<>>, abnormal_tests |-> <<>>, borderline_tests |-> <<>>,
     normal_tests |-> <<>>, missing_tests |-> <<>>, manual_tests |-> <<>>,
     calls |-> <<>>, raised |-> FALSE]

CallOf(step) ==
    [test_name |-> step.test_name,
     float_called |-> step.float_called,
     color_called |-> step.color_called,
     status |-> step.record.status]

\* The locals of analyze after one more iteration; an uncaught exception leaves
\* the loop with nothing more stored.
Advance(run, step) ==
    IF step.uncaught
    THEN [run EXCEPT !.raised = TRUE, !.calls = Append(@, CallOf(step))]
    ELSE [status_dict |-> Store(run.status_dict, step.test_name, step.record),
          abnormal_tests |-> Bucket(run.abnormal_tests, step, "red"),
          borderline_tests |-> Bucket(run.borderline_tests, step, "yellow"),
          normal_tests |-> Bucket(run.normal_tests, step, "green"),
          missing_tests |-> Bucket(run.missing_tests, step, "empty"),
          manual_tests |-> Bucket(run.manual_tests, step, "uncheckable"),
          calls |-> Append(run.calls, CallOf(step)),
          raised |-> FALSE]

\* The loop over the tests, from the left.
RECURSIVE Loop(_, _, _)
Loop(tests, raw, run) ==
    IF tests = <<>> \/ run.raised THEN run
    ELSE Loop(Tail(tests), raw, Advance(run, TestStep(Head(tests), raw)))

\* One summary line: the fixed text before the names, and the names that
\* ', '.join puts after it (the line ends with ".").  The leading symbol of each
\* text is left out.
Line(text, tests) == [text |-> text, tests |-> tests]

LineIf(text, tests) == IF tests # <<>> THEN <<Line(text, tests)>> ELSE <<>>

NoDataLine == Line("No valid test data provided.", <<>>)

SummaryLines(run) ==
    LineIf("Abnormal results found in: ", run.abnormal_tests)
        \o LineIf("Slightly outside healthy range: ", run.borderline_tests)
        \o LineIf("Within healthy range: ", run.normal_tests)
        \o LineIf("Tests not performed: ", run.missing_tests)

\* Variant of OrNoData: the fixed line appended whatever the lines are.
OrNoDataAlways(lines) == Append(lines, NoDataLine)

\* if not summary_lines: summary_lines.append("No valid test data provided.")
OrNoData(lines) == IF lines = <<>> THEN <<NoDataLine>> ELSE lines

Summary(run) == OrNoData(SummaryLines(run))

-----------------------------------------------------------------------------
(* The inputs of the model: catalogs and raw-value mappings *)

\* A catalog has at most MaxCats categories and at most MaxTests tests in all.
MaxCats == 2
MaxTests == 2

SeqsUpTo(S, n) == UNION {[1..k -> S] : k \in 0..n}

Categories ==
    {[name |-> <<"c">>, tests |-> ts] : ts \in SeqsUpTo(TestPool, MaxTests)}

Catalogs ==
    {[categories |-> cs] :
        cs \in {c \in SeqsUpTo(Categories, MaxCats) : Len(CatalogTests(c)) <= MaxTests}}

\* Raw strings as the form's line edits or a normalised report supply them.
RawValues == {<<>>, <<" ">>, <<"1", "4", "5">>, <<" ", "5", " ">>, <<"a", "b", "c">>}

\* Marks a key the mapping does not have.
Absent == <<"(absent)">>

RawKeys == {Hemoglobin, Glucose, HGB}

RawChoices(k) == IF k = HGB THEN {Absent, <<"1", "1", "9">>}
                 ELSE RawValues \cup {Absent}

RawDatas ==
    {[k \in {j \in RawKeys : f[j] # Absent} |-> f[k]] :
        f \in {g \in [RawKeys -> RawValues \cup {Absent, <<"1", "1", "9">>}] :
                  \A k \in RawKeys : g[k] \in RawChoices(k)}}

-----------------------------------------------------------------------------
(* Specification Spec: one call of analyze on a loaded catalog *)

ColorIdle ==
    /\ user_val_num = Zero
    /\ healthy_str = <<>>
    /\ min_str = <<>>
    /\ max_str = <<>>
    /\ tolerance = DefaultTolerance
    /\ color = "unused"
    /\ status = "unused"

\* Analyzer.__init__: healthy_data = json.load(f).
Init ==
    /\ healthy_data \in Catalogs
    /\ raw_data = <<>>
    /\ pc = "idle"
    /\ status_dict = <<>>
    /\ summary_lines = <<>>
    /\ calls = <<>>
    /\ raised = FALSE
    /\ ColorIdle
    /\ NormIdle

\* What the caller of analyze gets from a finished loop.
Returns(run) ==
    /\ raised' = run.raised
    /\ calls' = run.calls
    /\ status_dict' = IF run.raised THEN <<>> ELSE run.status_dict
    /\ summary_lines' = IF run.raised THEN <<>> ELSE Summary(run)

\* analyze(raw): the loop, then the summary; nothing is returned when it raises.
Analyze(raw) ==
    /\ pc = "idle"
    /\ Returns(Loop(CatalogTests(healthy_data.categories), raw, EmptyRun))
    /\ raw_data' = raw
    /\ pc' = "done"
    /\ UNCHANGED healthy_data
    /\ UNCHANGED colorVars
    /\ UNCHANGED normVars
    /\ UNCHANGED threadVars
    /\ UNCHANGED parserVars
    /\ UNCHANGED uiVars

Next == \E raw \in RawDatas : Analyze(raw)

Spec == Init /\ [][Next]_vars

-----------------------------------------------------------------------------
(* Specification SpecPanel: one call of analyze on a catalog of the panel's four
   tests, in every order, with values that give every status *)

\* The panel's tests in every order.
PanelOrders ==
    {[i \in 1..Len(Panel) |-> Panel[p[i]]] :
        p \in {q \in [1..Len(Panel) -> 1..Len(Panel)] :
                  \A i, j \in 1..Len(Panel) : q[i] = q[j] => i = j}}

\* The panel as one category, or as two categories of two tests.
PanelCatalogs ==
    {[categories |-> <<[name |-> <<"c">>, tests |-> ts]>>] : ts \in PanelOrders}
        \cup {[categories |-> <<[name |-> <<"c">>, tests |-> SubSeq(ts, 1, 2)],
                               [name |-> <<"d">>, tests |-> SubSeq(ts, 3, Len(ts))]>>] :
                 ts \in PanelOrders}

\* The values the form holds for a test of the panel: against 120..150, 145 is
\* green, 149 yellow and 5 red; against "4-6", 5 is green, 6.1 yellow and 145 red.
PanelValues(n) ==
    IF n = Glucose THEN {<<"5">>, <<"6", ".", "1">>, <<"1", "4", "5">>}
    ELSE IF n = Calcium THEN {<<"1", "4", "5">>, <<"a", "b", "c">>}
    ELSE {<<"1", "4", "5">>, <<"1", "4", "9">>, <<" ", "5", " ">>}

PanelNames == {Panel[i].name : i \in 1..Len(Panel)}

PanelRawDatas ==
    {[n \in {m \in PanelNames : f[m] # Absent} |-> f[n]] :
        f \in {g \in [PanelNames -> UNION {PanelValues(n) : n \in PanelNames} \cup {Absent}] :
                  \A n \in PanelNames : g[n] \in PanelValues(n) \cup {Absent}}}

InitPanel ==
    /\ healthy_data \in PanelCatalogs
    /\ raw_data = <<>>
    /\ pc = "idle"
    /\ status_dict = <<>>
    /\ summary_lines = <<>>
    /\ calls = <<>>
    /\ raised = FALSE
    /\ ColorIdle
    /\ NormIdle

NextPanel == \E raw \in PanelRawDatas : Analyze(raw)

SpecPanel == InitPanel /\ [][NextPanel]_vars

-----------------------------------------------------------------------------
(* Normalizer: text operations *)

UpperLetters == <<"A", "B", "C", "D", "E", "F", "G", "H", "I", "J", "K", "L", "M",
                  "N", "O", "P", "Q", "R", "S", "T", "U", "V", "W", "X", "Y", "Z">>
LowerLetters == <<"a", "b", "c", "d", "e", "f", "g", "h", "i", "j", "k", "l", "m",
                  "n", "o", "p", "q", "r", "s", "t", "u", "v", "w", "x", "y", "z">>

\* The letters of Latin-1 that str.lower() changes, U+00C0..U+00DE without the
\* sign U+00D7, and what it changes them to.
Latin1Upper == <<"U+00C0", "U+00C1", "U+00C2", "U+00C3", "U+00C4", "U+00C5",
                 "U+00C6", "U+00C7", "U+00C8", "U+00C9", "U+00CA", "U+00CB",
                 "U+00CC", "U+00CD", "U+00CE", "U+00CF", "U+00D0", "U+00D1",
                 "U+00D2", "U+00D3", "U+00D4", "U+00D5", "U+00D6", "U+00D8",
                 "U+00D9", "U+00DA", "U+00DB", "U+00DC", "U+00DD", "U+00DE">>
Latin1Lower == <<"U+00E0", "U+00E1", "U+00E2", "U+00E3", "U+00E4", "U+00E5",
                 "U+00E6", "U+00E7", "U+00E8", "U+00E9", "U+00EA", "U+00EB",
                 "U+00EC", "U+00ED", "U+00EE", "U+00EF", "U+00F0", "U+00F1",
                 "U+00F2", "U+00F3", "U+00F4", "U+00F5", "U+00F6", "U+00F8",
                 "U+00F9", "U+00FA", "U+00FB", "U+00FC", "U+00FD", "U+00FE">>

\* The letters of the Greek and Coptic block, U+0370..U+03FF, that str.lower()
\* changes, and what it changes them to: the capitals, the capitals with tonos
\* or dialytika, the archaic and Coptic capitals and the capital symbols.
GreekUpper == <<"U+0370", "U+0372", "U+0376", "U+037F", "U+0386", "U+0388",
                "U+0389", "U+038A", "U+038C", "U+038E", "U+038F", "U+0391",
                "U+0392", "U+0393", "U+0394", "U+0395", "U+0396", "U+0397",
                "U+0398", "U+0399", "U+039A", "U+039B", "U+039C", "U+039D",
                "U+039E", "U+039F", "U+03A0", "U+03A1", "U+03A3", "U+03A4",
                "U+03A5", "U+03A6", "U+03A7", "U+03A8", "U+03A9", "U+03AA",
                "U+03AB", "U+03CF", "U+03D8", "U+03DA", "U+03DC", "U+03DE",
                "U+03E0", "U+03E2", "U+03E4", "U+03E6", "U+03E8", "U+03EA",
                "U+03EC", "U+03EE", "U+03F4", "U+03F7", "U+03F9", "U+03FA",
                "U+03FD", "U+03FE", "U+03FF">>
GreekLower == <<"U+0371", "U+0373", "U+0377", "U+03F3", "U+03AC", "U+03AD",
                "U+03AE", "U+03AF", "U+03CC", "U+03CD", "U+03CE", "U+03B1",
                "U+03B2", "U+03B3", "U+03B4", "U+03B5", "U+03B6", "U+03B7",
                "U+03B8", "U+03B9", "U+03BA", "U+03BB", "U+03BC", "U+03BD",
                "U+03BE", "U+03BF", "U+03C0", "U+03C1", "U+03C3", "U+03C4",
                "U+03C5", "U+03C6", "U+03C7", "U+03C8", "U+03C9", "U+03CA",
                "U+03CB", "U+03D7", "U+03D9", "U+03DB", "U+03DD", "U+03DF",
                "U+03E1", "U+03E3", "U+03E5", "U+03E7", "U+03E9", "U+03EB",
                "U+03ED", "U+03EF", "U+03B8", "U+03F8", "U+03F2", "U+03FB",
                "U+037B", "U+037C", "U+037D">>

\* Letters whose lower case is more than a look-up: LATIN CAPITAL LETTER I WITH
\* DOT ABOVE becomes "i" and COMBINING DOT ABOVE, and GREEK CAPITAL LETTER SIGMA
\* becomes the final sigma at the end of a word and the small sigma elsewhere.
CapitalIDot == "U+0130"
CombiningDot == "U+0307"
CapitalSigma == "U+03A3"
FinalSigma == "U+03C2"
SmallSigma == "U+03C3"

IsUpper(c) == \E i \in DOMAIN UpperLetters : UpperLetters[i] = c

IsLatin1Upper(c) == \E i \in DOMAIN Latin1Upper : Latin1Upper[i] = c

IsGreekUpper(c) == \E i \in DOMAIN GreekUpper : GreekUpper[i] = c

\* The lower case of a character that has one of its own size.
LowerChar(c) ==
    IF IsUpper(c)
    THEN LowerLetters[CHOOSE i \in DOMAIN UpperLetters : UpperLetters[i] = c]
    ELSE IF IsLatin1Upper(c)
    THEN Latin1Lower[CHOOSE i \in DOMAIN Latin1Upper : Latin1Upper[i] = c]
    ELSE IF IsGreekUpper(c)
    THEN GreekLower[CHOOSE i \in DOMAIN GreekUpper : GreekUpper[i] = c]
    ELSE c

\* The characters with case that str.lower() leaves as they are and that are the
\* lower case of no other character of the alphabet: the ordinal indicators, the
\* micro sign, the sharp s, the small letters and symbols of Greek without a
\* capital of their own.
OtherCased == {"U+00AA", "U+00B5", "U+00BA", "U+00DF", "U+00FF", "U+0130",
               "U+037A", "U+0390", "U+03B0", "U+03C2", "U+03D0", "U+03D1",
               "U+03D2", "U+03D3", "U+03D4", "U+03D5", "U+03D6", "U+03F0",
               "U+03F1", "U+03F5", "U+03FC"}

\* The property Cased of a character (upper case, lower case or title case).
IsCased(c) ==
    \/ \E i \in DOMAIN UpperLetters : c \in {UpperLetters[i], LowerLetters[i]}
    \/ \E i \in DOMAIN Latin1Upper : c \in {Latin1Upper[i], Latin1Lower[i]}
    \/ \E i \in DOMAIN GreekUpper : c \in {GreekUpper[i], GreekLower[i]}
    \/ c \in OtherCased

\* The property Case_Ignorable: the characters a word may hold between its
\* letters (the apostrophe, the full stop, the colon, the circumflex, the grave
\* accent U+0060, the diaeresis, the soft hyphen, the macron, the acute accent,
\* the middle dot, the cedilla, the combining dot, the Greek numeral signs,
\* ypogegrammeni, tonos, dialytika tonos and ano teleia).
CaseIgnorable == {"'", ".", ":", "^", "U+0060", "U+00A8",
                  "U+00AD", "U+00AF", "U+00B4", "U+00B7", "U+00B8", "U+0307",
                  "U+0374", "U+0375", "U+037A", "U+0384", "U+0385", "U+0387"}

\* The last position before i, and the first after it, whose character is not
\* case-ignorable; 0 and Len(s) + 1 when there is none.
RECURSIVE Before(_, _)
Before(s, i) == IF i > 1 /\ s[i - 1] \in CaseIgnorable THEN Before(s, i - 1) ELSE i - 1

RECURSIVE After(_, _)
After(s, i) == IF i < Len(s) /\ s[i + 1] \in CaseIgnorable THEN After(s, i + 1) ELSE i + 1

\* The sigma at position i ends a word: a cased character before it and none
\* after it, case-ignorable characters apart.
IsFinalSigma(s, i) ==
    /\ Before(s, i) >= 1
    /\ IsCased(s[Before(s, i)])
    /\ After(s, i) > Len(s) \/ ~IsCased(s[After(s, i)])

\* The lower case of the character at position i of s.
LowerAt(s, i) ==
    IF s[i] = CapitalSigma
    THEN IF IsFinalSigma(s, i) THEN <<FinalSigma>> ELSE <<SmallSigma>>
    ELSE IF s[i] = CapitalIDot THEN <<"i", CombiningDot>>
    ELSE <<LowerChar(s[i])>>

RECURSIVE LowerFrom(_, _)
LowerFrom(s, i) == IF i > Len(s) THEN <<>> ELSE LowerAt(s, i) \o LowerFrom(s, i + 1)

\* str.lower()
lower(s) == LowerFrom(s, 1)

\* The characters of the model in code-point order, the order sorted() compares
\* strings by: ASCII, Latin-1, U+0130, U+0307, the Greek and Coptic block, the
\* Arabic-Indic digits, the whitespace beyond Latin-1, the en dash, U+8840.
CodeOrder == <<"U+0000", "U+0001", "U+0002", "U+0003", "U+0004", "U+0005", "U+0006", "U+0007",
               "U+0008", "\t", "\n", "U+000B", "U+000C", "\r", "U+000E", "U+000F",
               "U+0010", "U+0011", "U+0012", "U+0013", "U+0014", "U+0015", "U+0016", "U+0017",
               "U+0018", "U+0019", "U+001A", "U+001B", "U+001C", "U+001D", "U+001E", "U+001F",
               " ", "!", "\"", "#", "$", "%", "&", "'",
               "(", ")", "*", "+", ",", "-", ".", "/",
               "0", "1", "2", "3", "4", "5", "6", "7",
               "8", "9", ":", ";", "<", "=", ">", "?",
               "@", "A", "B", "C", "D", "E", "F", "G",
               "H", "I", "J", "K", "L", "M", "N", "O",
               "P", "Q", "R", "S", "T", "U", "V", "W",
               "X", "Y", "Z", "[", "\\", "]", "^", "_",
               "U+0060", "a", "b", "c", "d", "e", "f", "g",
               "h", "i", "j", "k", "l", "m", "n", "o",
               "p", "q", "r", "s", "t", "u", "v", "w",
               "x", "y", "z", "{", "|", "}", "~", "U+007F",
               "U+0080", "U+0081", "U+0082", "U+0083", "U+0084", "U+0085", "U+0086", "U+0087",
               "U+0088", "U+0089", "U+008A", "U+008B", "U+008C", "U+008D", "U+008E", "U+008F",
               "U+0090", "U+0091", "U+0092", "U+0093", "U+0094", "U+0095", "U+0096", "U+0097",
               "U+0098", "U+0099", "U+009A", "U+009B", "U+009C", "U+009D", "U+009E", "U+009F",
               "U+00A0", "U+00A1", "U+00A2", "U+00A3", "U+00A4", "U+00A5", "U+00A6", "U+00A7",
               "U+00A8", "U+00A9", "U+00AA", "U+00AB", "U+00AC", "U+00AD", "U+00AE", "U+00AF",
               "U+00B0", "U+00B1", "U+00B2", "U+00B3", "U+00B4", "U+00B5", "U+00B6", "U+00B7",
               "U+00B8", "U+00B9", "U+00BA", "U+00BB", "U+00BC", "U+00BD", "U+00BE", "U+00BF",
               "U+00C0", "U+00C1", "U+00C2", "U+00C3", "U+00C4", "U+00C5", "U+00C6", "U+00C7",
               "U+00C8", "U+00C9", "U+00CA", "U+00CB", "U+00CC", "U+00CD", "U+00CE", "U+00CF",
               "U+00D0", "U+00D1", "U+00D2", "U+00D3", "U+00D4", "U+00D5", "U+00D6", "U+00D7",
               "U+00D8", "U+00D9", "U+00DA", "U+00DB", "U+00DC", "U+00DD", "U+00DE", "U+00DF",
               "U+00E0", "U+00E1", "U+00E2", "U+00E3", "U+00E4", "U+00E5", "U+00E6", "U+00E7",
               "U+00E8", "U+00E9", "U+00EA", "U+00EB", "U+00EC", "U+00ED", "U+00EE", "U+00EF",
               "U+00F0", "U+00F1", "U+00F2", "U+00F3", "U+00F4", "U+00F5", "U+00F6", "U+00F7",
               "U+00F8", "U+00F9", "U+00FA", "U+00FB", "U+00FC", "U+00FD", "U+00FE", "U+00FF",
               "U+0130", "U+0307", "U+0370", "U+0371", "U+0372", "U+0373", "U+0374", "U+0375",
               "U+0376", "U+0377", "U+037A", "U+037B", "U+037C", "U+037D", "U+037E", "U+037F",
               "U+0384", "U+0385", "U+0386", "U+0387", "U+0388", "U+0389", "U+038A", "U+038C",
               "U+038E", "U+038F", "U+0390", "U+0391", "U+0392", "U+0393", "U+0394", "U+0395",
               "U+0396", "U+0397", "U+0398", "U+0399", "U+039A", "U+039B", "U+039C", "U+039D",
               "U+039E", "U+039F", "U+03A0", "U+03A1", "U+03A3", "U+03A4", "U+03A5", "U+03A6",
               "U+03A7", "U+03A8", "U+03A9", "U+03AA", "U+03AB", "U+03AC", "U+03AD", "U+03AE",
               "U+03AF", "U+03B0", "U+03B1", "U+03B2", "U+03B3", "U+03B4", "U+03B5", "U+03B6",
               "U+03B7", "U+03B8", "U+03B9", "U+03BA", "U+03BB", "U+03BC", "U+03BD", "U+03BE",
               "U+03BF", "U+03C0", "U+03C1", "U+03C2", "U+03C3", "U+03C4", "U+03C5", "U+03C6",
               "U+03C7", "U+03C8", "U+03C9", "U+03CA", "U+03CB", "U+03CC", "U+03CD", "U+03CE",
               "U+03CF", "U+03D0", "U+03D1", "U+03D2", "U+03D3", "U+03D4", "U+03D5", "U+03D6",
               "U+03D7", "U+03D8", "U+03D9", "U+03DA", "U+03DB", "U+03DC", "U+03DD", "U+03DE",
               "U+03DF", "U+03E0", "U+03E1", "U+03E2", "U+03E3", "U+03E4", "U+03E5", "U+03E6",
               "U+03E7", "U+03E8", "U+03E9", "U+03EA", "U+03EB", "U+03EC", "U+03ED", "U+03EE",
               "U+03EF", "U+03F0", "U+03F1", "U+03F2", "U+03F3", "U+03F4", "U+03F5", "U+03F6",
               "U+03F7", "U+03F8", "U+03F9", "U+03FA", "U+03FB", "U+03FC", "U+03FD", "U+03FE",
               "U+03FF", "U+0660", "U+0661", "U+0662", "U+0663", "U+0664", "U+0665", "U+0666",
               "U+0667", "U+0668", "U+0669", "U+1680", "U+2000", "U+2001", "U+2002", "U+2003",
               "U+2004", "U+2005", "U+2006", "U+2007", "U+2008", "U+2009", "U+200A", "en-dash",
               "U+2028", "U+2029", "U+202F", "U+205F", "U+3000", "U+8840">>

Code(c) == CHOOSE i \in DOMAIN CodeOrder : CodeOrder[i] = c

\* a < b for strings, as Python compares them.
RECURSIVE StrLess(_, _)
StrLess(a, b) ==
    IF b = <<>> THEN FALSE
    ELSE IF a = <<>> THEN TRUE
    ELSE IF Head(a) = Head(b) THEN StrLess(Tail(a), Tail(b))
    ELSE Code(Head(a)) < Code(Head(b))

\* The first whitespace-free word of s (s does not start with whitespace).
RECURSIVE FirstWord(_)
FirstWord(s) ==
    IF s = <<>> \/ IsSpace(Head(s)) THEN <<>> ELSE <<Head(s)>> \o FirstWord(Tail(s))

\* str.split(): the words between runs of whitespace.
RECURSIVE split(_)
split(s) ==
    IF lstrip(s) = <<>> THEN <<>>
    ELSE <<FirstWord(lstrip(s))>>
            \o split(SubSeq(lstrip(s), Len(FirstWord(lstrip(s))) + 1, Len(lstrip(s))))

\* One word put in its place in a sorted list of words.
RECURSIVE Insert(_, _)
Insert(w, ws) ==
    IF ws = <<>> THEN <<w>>
    ELSE IF StrLess(w, Head(ws)) THEN <<w>> \o ws
    ELSE <<Head(ws)>> \o Insert(w, Tail(ws))

\* sorted(words)
RECURSIVE sorted(_)
sorted(ws) == IF ws = <<>> THEN <<>> ELSE Insert(Head(ws), sorted(Tail(ws)))

\* " ".join(words)
RECURSIVE join(_)
join(ws) ==
    IF ws = <<>> THEN <<>>
    ELSE IF Len(ws) = 1 THEN Head(ws)
    ELSE Head(ws) \o <<" ">> \o join(Tail(ws))

\* One row of the longest-common-subsequence table: the row of character c of the
\* first string, from the row before it (prev), filled from the left (acc).
RECURSIVE LcsRow(_, _, _, _)
LcsRow(prev, c, b, acc) ==
    IF Len(acc) = Len(b) THEN acc
    ELSE LcsRow(prev, c, b,
                Append(acc,
                       IF c = b[Len(acc) + 1]
                       THEN (IF acc = <<>> THEN 0 ELSE prev[Len(acc)]) + 1
                       ELSE Max(IF acc = <<>> THEN 0 ELSE acc[Len(acc)],
                                prev[Len(acc) + 1])))

\* The rows of the table for the characters of a, one after the other, from the
\* row before them (prev, which like every row has the length of b).
RECURSIVE LcsRows(_, _, _)
LcsRows(a, b, prev) ==
    IF a = <<>> \/ Len(prev) # Len(b) THEN prev
    ELSE LcsRows(Tail(a), b, LcsRow(prev, Head(a), b, <<>>))

\* The length of a longest common subsequence of a and b.
Lcs(a, b) ==
    IF b = <<>> THEN 0 ELSE LcsRows(a, b, [j \in 1..Len(b) |-> 0])[Len(b)]

\* A score in 0..100 as an exact fraction num/den, den > 0.
Score(num, den) == [num |-> num, den |-> den]

ScoreAtLeast(sc, k) == sc.num >= k * sc.den
ScoreGreater(s1, s2) == s1.num * s2.den > s2.num * s1.den
ScoreEqual(s1, s2) == s1.num * s2.den = s2.num * s1.den

\* rapidfuzz.fuzz.ratio: 100 * (1 - indel distance / (len a + len b)), where the
\* indel distance is len a + len b - 2 * Lcs; 100 for two empty strings.
ratio(a, b) ==
    IF Len(a) + Len(b) = 0 THEN Score(100, 1)
    ELSE Score(100 * 2 * Lcs(a, b), Len(a) + Len(b))

\* rapidfuzz.fuzz.token_sort_ratio: the ratio of the two strings with their words
\* sorted and joined by one blank; no other preprocessing.
token_sort_ratio(a, b) == ratio(join(sorted(split(a))), join(sorted(split(b))))

-----------------------------------------------------------------------------
(* Normalizer._load_alias_map, _find_best_match, normalize *)

\* The variable match before _find_best_match has been called.
NotCalled == <<"(not called)">>

\* What _find_best_match returns when nothing matches: Python's None, which is
\* not a string (a name can be the empty string).
NoMatch == <<"(None)">>

\* d[key] = value
Put(d, key, value) == [k \in DOMAIN d \cup {key} |-> IF k = key THEN value ELSE d[k]]

Pair(key, value) == [k |-> key, v |-> value]

\* A dict is a sequence of (key, value) pairs in the order the keys were first
\* assigned.
HasKey(d, key) == \E i \in 1..Len(d) : d[i].k = key

\* d.get(key, default)
GetItem(d, key, default) ==
    IF HasKey(d, key) THEN d[CHOOSE i \in 1..Len(d) : d[i].k = key].v ELSE default

\* d[key] = value
SetItem(d, key, value) ==
    IF HasKey(d, key)
    THEN [i \in 1..Len(d) |-> IF d[i].k = key THEN Pair(key, value) ELSE d[i]]
    ELSE Append(d, Pair(key, value))

\* json.load of an object whose pairs are listed in file order: the dict of
\* them; a key written twice stays where it first stood and has its last value.
RECURSIVE json_load(_, _)
json_load(pairs, raw_map) ==
    IF pairs = <<>> THEN raw_map
    ELSE json_load(Tail(pairs), SetItem(raw_map, Head(pairs).k, Head(pairs).v))

\* for k, v in raw_map.items(): clean_map[k.lower().strip()] = v; a later key
\* with the same cleaned form replaces the value of the earlier one.
RECURSIVE CleanMap(_, _)
CleanMap(items, clean_map) ==
    IF items = <<>> THEN clean_map
    ELSE CleanMap(Tail(items),
                  Put(clean_map, strip(lower(Head(items).k)), Head(items).v))

\* data/aliases.json when it does not exist, and when it is no JSON.
Json(pairs) == [error |-> "none", pairs |-> pairs]
FileNotFound == [error |-> "FileNotFoundError", pairs |-> <<>>]
JSONDecodeError == [error |-> "JSONDecodeError", pairs |-> <<>>]

\* Normalizer._load_alias_map on the file: without a readable file the map is
\* empty.
load_alias_map(file) ==
    IF file.error # "none" THEN <<>>
    ELSE CleanMap(json_load(file.pairs, <<>>), <<>>)

\* Variant of ExactMatch: the target compared as it is written, not lower-cased.
RECURSIVE ExactMatchCaseSensitive(_, _)
ExactMatchCaseSensitive(clean_name, targets) ==
    IF targets = <<>> THEN NoMatch
    ELSE IF Head(targets) = clean_name THEN Head(targets)
    ELSE ExactMatchCaseSensitive(clean_name, Tail(targets))

\* Step 1: the first target whose lower-cased form is clean_name.
RECURSIVE ExactMatch(_, _)
ExactMatch(clean_name, targets) ==
    IF targets = <<>> THEN NoMatch
    ELSE IF lower(Head(targets)) = clean_name THEN Head(targets)
    ELSE ExactMatch(clean_name, Tail(targets))

\* Variant of Better: a later choice with the same score replaces the best so far.
BetterOrEqual(sc, best) == best = <<>> \/ ~ScoreGreater(best[1].score, sc)

\* process.extractOne keeps a choice when none is kept yet or its score is
\* strictly greater than the best so far.
Better(sc, best) == best = <<>> \/ ScoreGreater(sc, best[1].score)

\* One turn of the loop of process.extractOne: the triple (choice, score, index)
\* kept after the choice with score sc, best being None (<<>>) or the triple kept
\* so far.
Keep(best, choice, sc, index) ==
    IF Better(sc, best) THEN <<[choice |-> choice, score |-> sc, index |-> index]>>
    ELSE best

\* The loop over choices[i..].
RECURSIVE ExtractFrom(_, _, _, _)
ExtractFrom(query, choices, i, best) ==
    IF i > Len(choices) THEN best
    ELSE ExtractFrom(query, choices, i + 1,
                     Keep(best, choices[i], token_sort_ratio(query, choices[i]), i - 1))

\* process.extractOne(query, choices, scorer=fuzz.token_sort_ratio)
extractOne(query, choices) == ExtractFrom(query, choices, 1, <<>>)

\* The threshold of `if score >= 90`.
FuzzyCutoff == 90

\* Variant of PassesCutoff: the strict comparison.
PassesCutoffStrictly(sc) == sc.num > FuzzyCutoff * sc.den

\* score >= 90
PassesCutoff(sc) == ScoreAtLeast(sc, FuzzyCutoff)

\* Step 3, given the result of extractOne.
FuzzyResult(found) ==
    IF found # <<>> /\ PassesCutoff(found[1].score) THEN found[1].choice ELSE NoMatch

FuzzyMatch(name, targets) == FuzzyResult(extractOne(name, targets))

\* Steps 2 and 3, taken when step 1 found nothing.
AliasOrFuzzy(name, clean_name, targets, aliases) ==
    IF clean_name \in DOMAIN aliases THEN aliases[clean_name]
    ELSE FuzzyMatch(name, targets)

\* Variant of FirstHit: the alias table consulted before the exact match.
AliasBeforeExact(name, clean_name, targets, aliases) ==
    IF clean_name \in DOMAIN aliases THEN aliases[clean_name]
    ELSE IF ExactMatch(clean_name, targets) # NoMatch THEN ExactMatch(clean_name, targets)
    ELSE FuzzyMatch(name, targets)

\* The three steps in order, the first hit returned.
FirstHit(name, clean_name, targets, aliases) ==
    IF ExactMatch(clean_name, targets) # NoMatch THEN ExactMatch(clean_name, targets)
    ELSE AliasOrFuzzy(name, clean_name, targets, aliases)

\* Normalizer._find_best_match(input_name), with self.target_keys and
\* self.alias_map; clean_name = input_name.lower().strip().
find_best_match(name, targets, aliases) ==
    FirstHit(name, strip(lower(name)), targets, aliases)

\* The values an extracted entry can carry: None (also when the entry has no
\* "value" key), a string, an int, or a float given in halves.
NoneValue == [type |-> "none"]
StrValue(t) == [type |-> "str", s |-> t]
IntValue(n) == [type |-> "int", n |-> n]
FloatHalves(h) == [type |-> "float", h |-> h]

SignedDec(n) == IF n < 0 THEN <<"-">> \o Dec(0 - n) ELSE Dec(n)

\* str(value): a string is itself, an int its decimal numeral, a float its
\* shortest repr, which for a multiple of 0.5 ends in ".0" or ".5".
str(value) ==
    IF value.type = "str" THEN value.s
    ELSE IF value.type = "int" THEN SignedDec(value.n)
    ELSE (IF value.h < 0 THEN <<"-">> ELSE <<>>)
            \o Dec((IF value.h < 0 THEN 0 - value.h ELSE value.h) \div 2)
            \o <<".", IF value.h % 2 = 0 THEN "0" ELSE "5">>

\* `if canonical_name:` is false for None and for the empty string.
Truthy(name) == name # NoMatch /\ name # <<>>

\* Variant of NormalizeEntry: an entry without a value is stored like any other.
NormalizeEntryKeepNone(normalized, value, canonical_name) ==
    IF Truthy(canonical_name)
    THEN Put(normalized, canonical_name,
             IF value = NoneValue THEN <<"N", "o", "n", "e">> ELSE str(value))
    ELSE normalized

\* Variant of NormalizeEntry: a name already in the result keeps its first value.
NormalizeEntryKeepFirst(normalized, value, canonical_name) ==
    IF value = NoneValue THEN normalized
    ELSE IF Truthy(canonical_name) /\ canonical_name \notin DOMAIN normalized
         THEN Put(normalized, canonical_name, str(value))
    ELSE normalized

\* The body of normalize's loop for one entry, given the name it resolves to.
NormalizeEntry(normalized, value, canonical_name) ==
    IF value = NoneValue THEN normalized
    ELSE IF Truthy(canonical_name) THEN Put(normalized, canonical_name, str(value))
    ELSE normalized

\* Normalizer.normalize: the loop over extracted_data["tests"] in insertion order.
RECURSIVE normalize(_, _, _, _)
normalize(tests, targets, aliases, normalized) ==
    IF tests = <<>> THEN normalized
    ELSE normalize(Tail(tests), targets, aliases,
                   NormalizeEntry(normalized, Head(tests).value,
                                  find_best_match(Head(tests).name, targets, aliases)))

-----------------------------------------------------------------------------
(* The inputs of the model: canonical names, alias files and reported names *)

\* A Normalizer has at most MaxTargets target keys.
MaxTargets == 2

Haemoglobin == <<"H", "a", "e", "m", "o", "g", "l", "o", "b", "i", "n">>
AlanineTransaminase ==
    <<"A", "l", "a", "n", "i", "n", "e", " ", "T", "r", "a", "n", "s", "a", "m", "i", "n", "a", "s", "e">>

\* A name in capitals with a letter beyond ASCII, and the same in small letters.
HEMO == <<"H", "U+00C9", "M", "O">>
hemo == <<"h", "U+00E9", "m", "o">>

\* Canonical names as a catalog can hold them: two that differ in case only, one
\* with a trailing blank, and one with an accented capital.
TargetNames ==
    {Hemoglobin, lower(Hemoglobin), Glucose, Glucose \o <<" ">>, AlanineTransaminase,
     HEMO}

\* list(param_inputs.keys()): the names are distinct.
TargetLists ==
    {ts \in SeqsUpTo(TargetNames, MaxTargets) :
        \A i \in 1..Len(ts), j \in 1..Len(ts) : i # j => ts[i] # ts[j]}

\* data/aliases.json: missing, broken, or its pairs in file order.
RawAliasMaps ==
    {Json(<<>>),
     FileNotFound,
     JSONDecodeError,
     Json(<<Pair(HGB, Glucose), Pair(lower(HGB), Hemoglobin), Pair(HGB, Haemoglobin)>>),
     Json(<<Pair(Haemoglobin, Hemoglobin), Pair(Pad(HGB), Hemoglobin)>>),
     Json(<<Pair(lower(Hemoglobin), Glucose)>>),
     Json(<<Pair(lower(HGB), Haemoglobin)>>),
     Json(<<Pair(HGB, Glucose), Pair(lower(HGB), Hemoglobin)>>),
     Json(<<Pair(<<"h", "e", "m", "o", "g", "l", "o", "b", "i", "m">>, Glucose)>>)}

\* Names as a report writes them.
InputNames ==
    {Hemoglobin, Haemoglobin, HGB, lower(HGB), Glucose, <<>>, hemo,
     <<"H", "E", "M", "O", "G", "L", "O", "B", "I", "N", " ">>,
     <<"H", "e", "m", "o", "g", "l", "o", "b", "i", "m">>,
     <<"H", "e", "m", "o", "g", "l", "o", "b", "i">>,
     <<"e", "m", "o", "g", "l", "o", "b", "i", "n">>,
     <<"T", "r", "a", "n", "s", "a", "m", "i", "n", "a", "s", "e", " ", "A", "l", "a", "n", "i", "n", "e">>,
     <<"A", "l", "a", "m", "i", "n", "e", " ", "T", "r", "a", "m", "s", "a", "m", "i", "n", "a", "z", "e">>}

-----------------------------------------------------------------------------
(* Specification SpecResolve: one call of _find_best_match on a loaded Normalizer *)

\* The variables of analyze and get_status_color in the specifications that do
\* not use them.
AnalyzeUnused == AnalyzeIdle
ColorUnused ==
    /\ user_val_num = Zero
    /\ healthy_str = <<>>
    /\ min_str = <<>>
    /\ max_str = <<>>
    /\ tolerance = DefaultTolerance
    /\ color = "unused"
    /\ status = "unused"

\* Normalizer.__init__: target_keys as given, alias_map loaded from the file.
InitResolve ==
    /\ AnalyzeUnused
    /\ ColorUnused
    /\ target_keys \in TargetLists
    /\ alias_map \in {load_alias_map(raw) : raw \in RawAliasMaps}
    /\ input_name \in InputNames
    /\ match = NotCalled
    /\ extracted_data = <<>>
    /\ normalized_data = <<>>
    /\ threads = <<>>
    /\ ParserIdle
    /\ DialogIdle
    /\ AppIdle

\* _find_best_match(input_name)
FindBestMatch ==
    /\ match = NotCalled
    /\ match' = find_best_match(input_name, target_keys, alias_map)
    /\ UNCHANGED <<target_keys, alias_map, input_name, extracted_data, normalized_data>>
    /\ UNCHANGED analyzeVars
    /\ UNCHANGED colorVars
    /\ UNCHANGED threadVars
    /\ UNCHANGED parserVars
    /\ UNCHANGED uiVars

NextResolve == FindBestMatch

SpecResolve == InitResolve /\ [][NextResolve]_vars

-----------------------------------------------------------------------------
(* Specification SpecPipeline: normalize a report, then analyze the result *)

\* A report has at most MaxEntries tests.
MaxEntries == 2

\* What load_data raises on a test without "units": it reads test["units"] with no
\* default.
KeyError == <<<<"(KeyError)">>>>

\* The names of a list of tests, each once, in the order of first occurrence:
\* list(param_inputs.keys()), param_inputs being filled by load_data in catalog
\* order.  A test without "units" ends load_data with KeyError.
RECURSIVE KeysOf(_, _)
KeysOf(tests, keys) ==
    IF tests = <<>> THEN keys
    ELSE IF "units" \notin DOMAIN Head(tests) THEN KeyError
    ELSE KeysOf(Tail(tests),
                IF \E i \in 1..Len(keys) : keys[i] = Head(tests).name THEN keys
                ELSE Append(keys, Head(tests).name))

\* BloodAnalyzerApp.__init__ went through: load_data did not raise, so there is a
\* window and a Normalizer.
LoadsData(tests) == KeysOf(tests, <<>>) # KeyError

\* Catalogs the window loads, of one category in which no name occurs twice.
PipelineCatalogs ==
    {c \in Catalogs :
        /\ LoadsData(CatalogTests(c.categories))
        /\ Len(c.categories) = 1
        /\ \A i, j \in 1..Len(c.categories[1].tests) :
              i # j => c.categories[1].tests[i].name # c.categories[1].tests[j].name}

PipelineAliasMaps ==
    {Json(<<>>),
     Json(<<Pair(Haemoglobin, Hemoglobin), Pair(Pad(HGB), Hemoglobin)>>),
     Json(<<Pair(lower(HGB), Haemoglobin)>>)}

Entry(n, v) == [name |-> n, value |-> v]

\* The report's names for one test: the canonical name, a spelling the alias file
\* may know, and an abbreviation.
EntryNames == {Hemoglobin, Haemoglobin, HGB}

EntryValues ==
    {NoneValue, StrValue(<<"1", "4", "5">>), StrValue(<<" ", "5", " ">>), IntValue(130)}

\* extracted_data["tests"]: a dict, so no name twice.
ExtractedTests ==
    {es \in SeqsUpTo({Entry(n, v) : n \in EntryNames, v \in EntryValues}, MaxEntries) :
        \A i \in 1..Len(es), j \in 1..Len(es) : i # j => es[i].name # es[j].name}

\* BloodAnalyzerApp.__init__: Analyzer() reads data/healthy_ranges.json, the file
\* the program passes to BloodAnalyzerApp; then PDFParser(llm_client=llm_client)
\* raises TypeError, and there is neither a window nor a Normalizer.  With a call
\* of PDFParser that binds, load_data fills param_inputs from the catalog and the
\* Normalizer is built on its keys and the alias file.
InitPipeline ==
    /\ healthy_data \in PipelineCatalogs
    /\ raw_data = <<>>
    /\ status_dict = <<>>
    /\ summary_lines = <<>>
    /\ calls = <<>>
    /\ raised = FALSE
    /\ ColorUnused
    /\ \E parser_keywords \in ParserKeywords :
          \/ /\ Binds(<<>>, 0, parser_keywords)
             /\ pc = "idle"
             /\ target_keys = KeysOf(CatalogTests(healthy_data.categories), <<>>)
             /\ alias_map \in {load_alias_map(raw) : raw \in PipelineAliasMaps}
          \/ /\ ~Binds(<<>>, 0, parser_keywords)
             /\ pc = "TypeError"
             /\ target_keys = <<>>
             /\ alias_map = <<>>
    /\ input_name = <<>>
    /\ match = NotCalled
    /\ extracted_data = <<>>
    /\ normalized_data = <<>>
    /\ threads = <<>>
    /\ ParserIdle
    /\ DialogIdle
    /\ AppIdle

\* normalized_data = normalize({"tests": tests})
Normalize(tests) ==
    /\ pc = "idle"
    /\ extracted_data' = tests
    /\ normalized_data' = normalize(tests, target_keys, alias_map, <<>>)
    /\ pc' = "normalized"
    /\ UNCHANGED <<healthy_data, raw_data, status_dict, summary_lines, calls, raised>>
    /\ UNCHANGED <<target_keys, alias_map, input_name, match>>
    /\ UNCHANGED colorVars
    /\ UNCHANGED threadVars
    /\ UNCHANGED parserVars
    /\ UNCHANGED uiVars

\* analyze(normalized_data)
AnalyzeNormalized ==
    /\ pc = "normalized"
    /\ Returns(Loop(CatalogTests(healthy_data.categories), normalized_data, EmptyRun))
    /\ raw_data' = normalized_data
    /\ pc' = "done"
    /\ UNCHANGED healthy_data
    /\ UNCHANGED colorVars
    /\ UNCHANGED normVars
    /\ UNCHANGED threadVars
    /\ UNCHANGED parserVars
    /\ UNCHANGED uiVars

NextPipeline ==
    \/ \E tests \in ExtractedTests : Normalize(tests)
    \/ AnalyzeNormalized

SpecPipeline == InitPipeline /\ [][NextPipeline]_vars

-----------------------------------------------------------------------------
(* Specification SpecConcurrent: calls of analyze, normalize and
   _find_best_match running in several threads on one Analyzer and one
   Normalizer.  A thread takes one step per catalog test (analyze) or per
   report entry (normalize); the steps of different threads interleave freely. *)

MaxThreads == 2

Threads == 1..MaxThreads

IdleThread ==
    [pc |-> "idle", op |-> "none", arg |-> <<>>, k |-> 0, acc |-> <<>>, result |-> <<>>]

\* Variant of FindBestMatchCall: a name that resolved is remembered as an alias.
FindBestMatchCallCaching(name, targets, aliases) ==
    [returns |-> find_best_match(name, targets, aliases),
     target_keys |-> targets,
     alias_map |-> IF find_best_match(name, targets, aliases) # NoMatch
                   THEN Put(aliases, strip(lower(name)),
                            find_best_match(name, targets, aliases))
                   ELSE aliases]

\* One call of _find_best_match: what it returns, and the Normalizer's fields
\* after it (the method assigns to neither).
FindBestMatchCall(name, targets, aliases) ==
    [returns |-> find_best_match(name, targets, aliases),
     target_keys |-> targets,
     alias_map |-> aliases]

\* What analyze returns from its locals: (status_dict, summary), or an exception.
AnalyzeResult(run) ==
    [raised |-> run.raised,
     status_dict |-> IF run.raised THEN <<>> ELSE run.status_dict,
     summary_lines |-> IF run.raised THEN <<>> ELSE Summary(run)]

\* Catalogs of one category: the Hemoglobin range test, then Glucose tests.
ConcurrentCatalogs ==
    {c \in PipelineCatalogs :
        /\ CatalogTests(c.categories) # <<>>
        /\ "min" \in DOMAIN CatalogTests(c.categories)[1]
        /\ \A i \in 1..Len(CatalogTests(c.categories)) :
              CatalogTests(c.categories)[i].name = Hemoglobin <=> i = 1}

\* Raw mappings with a value for both tests.
ThreadRaws ==
    {r \in RawDatas :
        /\ DOMAIN r = {Hemoglobin, Glucose}
        /\ r[Hemoglobin] \in {<<"1", "4", "5">>, <<"a", "b", "c">>}
        /\ r[Glucose] = <<" ", "5", " ">>}

\* Reports that start with a Hemoglobin value and may go on under another name.
ThreadReports ==
    {<<Entry(Hemoglobin, StrValue(<<"1", "4", "5">>))>>,
     <<Entry(Hemoglobin, StrValue(<<"1", "4", "5">>)), Entry(Haemoglobin, IntValue(130))>>,
     <<Entry(Hemoglobin, StrValue(<<"1", "4", "5">>)), Entry(HGB, NoneValue)>>}

ThreadNames == {HGB, <<"H", "e", "m", "o", "g", "l", "o", "b", "i", "m">>}

ConcurrentAliasMaps ==
    {Json(<<>>), Json(<<Pair(Haemoglobin, Hemoglobin), Pair(Pad(HGB), Hemoglobin)>>)}

InitConcurrent ==
    /\ healthy_data \in ConcurrentCatalogs
    /\ raw_data = <<>>
    /\ pc = "unused"
    /\ status_dict = <<>>
    /\ summary_lines = <<>>
    /\ calls = <<>>
    /\ raised = FALSE
    /\ ColorUnused
    /\ target_keys = KeysOf(CatalogTests(healthy_data.categories), <<>>)
    /\ alias_map \in {load_alias_map(raw) : raw \in ConcurrentAliasMaps}
    /\ input_name = <<>>
    /\ match = <<"(unused)">>
    /\ extracted_data = <<>>
    /\ normalized_data = <<>>
    /\ threads = [t \in Threads |-> IdleThread]
    /\ ParserIdle
    /\ DialogIdle
    /\ AppIdle

\* What a step of a thread leaves alone besides the shared objects.
singleCallVars ==
    <<raw_data, pc, status_dict, summary_lines, calls, raised,
      input_name, match, extracted_data, normalized_data,
      objects, auto_params, returned, parsed, last_call, waiting,
      dialog, drawn, app, ui_effect, fresh>>

\* A thread enters op(arg) with fresh locals.
Enter(t, op, arg, acc) ==
    /\ threads[t].pc = "idle"
    /\ threads' = [threads EXCEPT ![t] =
                      [pc |-> "running", op |-> op, arg |-> arg, k |-> 1,
                       acc |-> acc, result |-> <<>>]]
    /\ UNCHANGED <<healthy_data, target_keys, alias_map>>
    /\ UNCHANGED singleCallVars
    /\ UNCHANGED colorVars

CallAnalyze(t, raw) == Enter(t, "analyze", raw, EmptyRun)

CallNormalize(t, tests) == Enter(t, "normalize", tests, <<>>)

CallFindBestMatch(t, name) == Enter(t, "_find_best_match", name, <<>>)

Running(t, op) == threads[t].pc = "running" /\ threads[t].op = op

\* analyze, one iteration of `for test in category["tests"]`; the catalog is read
\* from the shared Analyzer at each iteration.
AnalyzeStep(t) ==
    /\ Running(t, "analyze")
    /\ threads[t].k <= Len(CatalogTests(healthy_data.categories))
    /\ ~threads[t].acc.raised
    /\ threads' = [threads EXCEPT
                      ![t].acc = Advance(@, TestStep(CatalogTests(healthy_data.categories)[threads[t].k],
                                                     threads[t].arg)),
                      ![t].k = @ + 1]
    /\ UNCHANGED <<healthy_data, target_keys, alias_map>>
    /\ UNCHANGED singleCallVars
    /\ UNCHANGED colorVars

\* analyze, after the loop (or on an exception that leaves it).
AnalyzeReturn(t) ==
    /\ Running(t, "analyze")
    /\ \/ threads[t].k > Len(CatalogTests(healthy_data.categories))
       \/ threads[t].acc.raised
    /\ threads' = [threads EXCEPT ![t].pc = "returned",
                                  ![t].result = AnalyzeResult(threads[t].acc)]
    /\ UNCHANGED <<healthy_data, target_keys, alias_map>>
    /\ UNCHANGED singleCallVars
    /\ UNCHANGED colorVars

\* normalize, one iteration for an entry without a value: `continue`.
NormalizeSkip(t) ==
    /\ Running(t, "normalize")
    /\ threads[t].k <= Len(threads[t].arg)
    /\ threads[t].arg[threads[t].k].value = NoneValue
    /\ threads' = [threads EXCEPT ![t].k = @ + 1]
    /\ UNCHANGED <<healthy_data, target_keys, alias_map>>
    /\ UNCHANGED singleCallVars
    /\ UNCHANGED colorVars

\* The fields of the shared Normalizer after a call of _find_best_match.
NormalizerAfter(call) ==
    /\ target_keys' = call.target_keys
    /\ alias_map' = call.alias_map

\* normalize, one iteration for an entry with a value: the name is resolved on
\* the shared Normalizer and the value stored in the thread's own dict.
NormalizeStepWith(t, call) ==
    /\ threads' = [threads EXCEPT
                      ![t].acc = NormalizeEntry(@, threads[t].arg[threads[t].k].value,
                                                call.returns),
                      ![t].k = @ + 1]
    /\ NormalizerAfter(call)

NormalizeStep(t) ==
    /\ Running(t, "normalize")
    /\ threads[t].k <= Len(threads[t].arg)
    /\ threads[t].arg[threads[t].k].value # NoneValue
    /\ NormalizeStepWith(t, FindBestMatchCall(threads[t].arg[threads[t].k].name,
                                              target_keys, alias_map))
    /\ UNCHANGED healthy_data
    /\ UNCHANGED singleCallVars
    /\ UNCHANGED colorVars

\* normalize, after the loop: return normalized_data.
NormalizeReturn(t) ==
    /\ Running(t, "normalize")
    /\ threads[t].k > Len(threads[t].arg)
    /\ threads' = [threads EXCEPT ![t].pc = "returned", ![t].result = threads[t].acc]
    /\ UNCHANGED <<healthy_data, target_keys, alias_map>>
    /\ UNCHANGED singleCallVars
    /\ UNCHANGED colorVars

FindBestMatchReturnWith(t, call) ==
    /\ threads' = [threads EXCEPT ![t].pc = "returned", ![t].result = call.returns]
    /\ NormalizerAfter(call)

\* _find_best_match called directly by a thread.
FindBestMatchReturn(t) ==
    /\ Running(t, "_find_best_match")
    /\ FindBestMatchReturnWith(t, FindBestMatchCall(threads[t].arg, target_keys, alias_map))
    /\ UNCHANGED healthy_data
    /\ UNCHANGED singleCallVars
    /\ UNCHANGED colorVars

NextConcurrent ==
    \E t \in Threads :
        \/ \E raw \in ThreadRaws : CallAnalyze(t, raw)
        \/ \E tests \in ThreadReports : CallNormalize(t, tests)
        \/ \E name \in ThreadNames : CallFindBestMatch(t, name)
        \/ AnalyzeStep(t)
        \/ AnalyzeReturn(t)
        \/ NormalizeSkip(t)
        \/ NormalizeStep(t)
        \/ NormalizeReturn(t)
        \/ FindBestMatchReturn(t)

SpecConcurrent == InitConcurrent /\ [][NextConcurrent]_vars

-----------------------------------------------------------------------------
(* PDFParser._parse_extracted_texts: the text of the selected regions turned
   into name -> value pairs *)

\* A character of the CJK block U+4E00..U+9FFF, one character of the text.
CjkChar == "U+8840"

IsCjk(c) == c = CjkChar

IsLetter(c) ==
    \/ \E i \in DOMAIN UpperLetters : UpperLetters[i] = c
    \/ \E i \in DOMAIN LowerLetters : LowerLetters[i] = c

\* \d: a decimal digit of any script.
IsDigit(c) == IsDecimal(c)

\* The pieces of s between the characters of seps, empty pieces included.
RECURSIVE Pieces(_, _, _, _)
Pieces(s, seps, piece, done) ==
    IF s = <<>> THEN Append(done, piece)
    ELSE IF Head(s) \in seps
         THEN Pieces(Tail(s), seps, <<>>, Append(done, piece))
    ELSE Pieces(Tail(s), seps, Append(piece, Head(s)), done)

\* The line boundaries of str.splitlines(); "\r\n" is one boundary.
LineBreaks == {"\n", "\r", "U+000B", "U+000C", "U+001C", "U+001D", "U+001E", "U+0085",
               "U+2028", "U+2029"}

RECURSIVE SplitLines(_, _, _)
SplitLines(s, piece, done) ==
    IF s = <<>> THEN (IF piece = <<>> THEN done ELSE Append(done, piece))
    ELSE IF Len(s) >= 2 /\ s[1] = "\r" /\ s[2] = "\n"
         THEN SplitLines(Tail(Tail(s)), <<>>, Append(done, piece))
    ELSE IF Head(s) \in LineBreaks
         THEN SplitLines(Tail(s), <<>>, Append(done, piece))
    ELSE SplitLines(Tail(s), Append(piece, Head(s)), done)

\* str.splitlines(): no line for the empty string, none after a final boundary.
splitlines(text) == SplitLines(text, <<>>, <<>>)

StripAll(ss) == [i \in 1..Len(ss) |-> strip(ss[i])]

NonEmpty(ss) == SelectSeq(ss, LAMBDA x : x # <<>>)

\* lines = [ln.strip() for ln in text.splitlines() if ln.strip()]
LinesOf(text) == NonEmpty(StripAll(splitlines(text)))

\* sep.join(ss)
RECURSIVE JoinWith(_, _)
JoinWith(ss, sep) ==
    IF ss = <<>> THEN <<>>
    ELSE IF Len(ss) = 1 THEN ss[1]
    ELSE ss[1] \o sep \o JoinWith(Tail(ss), sep)

\* joined = " | ".join(lines)
Joined(lines) == JoinWith(lines, <<" ", "|", " ">>)

\* Where -?\d+ can start at i.
NumberStartsAt(s, i) ==
    \/ IsDigit(s[i])
    \/ s[i] = "-" /\ i < Len(s) /\ IsDigit(s[i + 1])

\* re.search finds the leftmost match: its start, 0 when there is none.
NumStart(s) ==
    IF \E i \in 1..Len(s) : NumberStartsAt(s, i)
    THEN CHOOSE i \in 1..Len(s) :
            NumberStartsAt(s, i) /\ \A j \in 1..(i - 1) : ~NumberStartsAt(s, j)
    ELSE 0

\* The last index of the run of digits that starts at i.
DigitRunEnd(s, i) ==
    CHOOSE e \in i..Len(s) :
        /\ \A j \in i..e : IsDigit(s[j])
        /\ e = Len(s) \/ ~IsDigit(s[e + 1])

IntegerEnd(s, start) == DigitRunEnd(s, IF s[start] = "-" THEN start + 1 ELSE start)

\* (?:\.\d+)? after the integer part that ends at e.
FractionEnd(s, e) ==
    IF e + 2 <= Len(s) /\ s[e + 1] = "." /\ IsDigit(s[e + 2])
    THEN DigitRunEnd(s, e + 2) ELSE e

\* %? after the number that ends at e.
PercentEnd(s, e) == IF e + 1 <= Len(s) /\ s[e + 1] = "%" THEN e + 1 ELSE e

\* The last index of the match of -?\d+(?:\.\d+)?%? that starts at start.
NumEnd(s, start) == PercentEnd(s, FractionEnd(s, IntegerEnd(s, start)))

\* re.sub(r"[\u4e00-\u9fff]+", "", s).strip()
WithoutCjk(s) == strip(SelectSeq(s, LAMBDA c : ~IsCjk(c)))

\* The first non-empty element of ss, "" when there is none.
FirstNonEmpty(ss) == IF NonEmpty(ss) = <<>> THEN <<>> ELSE NonEmpty(ss)[1]

Reversed(ss) == [i \in 1..Len(ss) |-> ss[Len(ss) + 1 - i]]

CleanParts(parts) == [i \in 1..Len(parts) |-> WithoutCjk(strip(parts[i]))]

\* The name taken from the text before the number: the last part between "|"
\* that is not empty once its CJK characters are removed.
NameBefore(before) ==
    IF before = <<>> THEN <<>>
    ELSE FirstNonEmpty(Reversed(CleanParts(Pieces(before, {"|", "\n"}, <<>>, <<>>))))

HasDigit(s) == \E i \in 1..Len(s) : IsDigit(s[i])

\* fallback: the first line without digits that is not empty without its CJK
\* characters.
NameFromLines(lines) ==
    FirstNonEmpty(CleanParts(SelectSeq(lines, LAMBDA ln : ~HasDigit(ln))))

\* Whichever of the three candidates comes first.
NameCandidate(before, lines) ==
    IF NameBefore(before) # <<>> THEN NameBefore(before)
    ELSE IF NameFromLines(lines) # <<>> THEN NameFromLines(lines)
    ELSE WithoutCjk(lines[1])

\* [A-Za-z0-9 \-/()+%]
IsNameChar(c) == IsLetter(c) \/ c \in Digits \/ c \in {" ", "-", "/", "(", ")", "+", "%"}

\* name_clean = re.sub(r"[^A-Za-z0-9 \-/()+%]", "", name_candidate).strip()
NameClean(name_candidate) == strip(SelectSeq(name_candidate, IsNameChar))

\* The branch for a region with a numeric token that starts at start.
NumericPair(results, lines, joined, start) ==
    IF NameClean(NameCandidate(strip(SubSeq(joined, 1, start - 1)), lines)) = <<>>
    THEN results
    ELSE Put(results,
             NameClean(NameCandidate(strip(SubSeq(joined, 1, start - 1)), lines)),
             SelectSeq(SubSeq(joined, start, NumEnd(joined, start)), LAMBDA c : c # " "))

Positive == <<"p", "o", "s", "i", "t", "i", "v", "e">>
Negative == <<"n", "e", "g", "a", "t", "i", "v", "e">>

StartsAt(s, w, k) == k + Len(w) - 1 <= Len(s) /\ SubSeq(s, k, k + Len(w) - 1) = w

\* `w in s`
Contains(s, w) == \E k \in 1..Len(s) : StartsAt(s, w, k)

\* [A-Za-z /()-]
IsFlagNameChar(c) == IsLetter(c) \/ c \in {" ", "/", "(", ")", "-"}

\* ([A-Za-z /()-]+)\s+(positive|negative) matches with group 1 = s[i..j-1],
\* the whitespace s[j..k-1] and the word at k.
FlagMatch(s, i, j, k) ==
    /\ i < j /\ j < k
    /\ \A x \in i..(j - 1) : IsFlagNameChar(s[x])
    /\ \A x \in j..(k - 1) : IsSpace(s[x])
    /\ StartsAt(s, Positive, k) \/ StartsAt(s, Negative, k)

FlagMatches(s) ==
    {m \in (1..Len(s)) \X (1..Len(s)) \X (1..Len(s)) : FlagMatch(s, m[1], m[2], m[3])}

\* The match re.search returns: the leftmost start, then the longest group 1.
FlagFound(matches) ==
    CHOOSE m \in matches :
        \A n \in matches : m[1] < n[1] \/ (m[1] = n[1] /\ m[2] >= n[2])

\* str.capitalize() of a lower-case word.
capitalize(w) ==
    [i \in 1..Len(w) |->
        IF i = 1 /\ \E x \in DOMAIN LowerLetters : LowerLetters[x] = w[1]
        THEN UpperLetters[CHOOSE x \in DOMAIN LowerLetters : LowerLetters[x] = w[1]]
        ELSE w[i]]

FlagPairOf(results, s, m) ==
    Put(results, strip(SubSeq(s, m[1], m[2] - 1)),
        capitalize(SubSeq(s, m[3], m[3] + Len(Positive) - 1)))

\* The branch for a region without a numeric token: a Positive / Negative result.
FlagPair(results, txt_lower) ==
    IF ~(Contains(txt_lower, Positive) \/ Contains(txt_lower, Negative)) THEN results
    ELSE IF FlagMatches(txt_lower) = {} THEN results
    ELSE FlagPairOf(results, txt_lower, FlagFound(FlagMatches(txt_lower)))

RegionPairOf(results, lines, joined) ==
    IF NumStart(joined) # 0 THEN NumericPair(results, lines, joined, NumStart(joined))
    ELSE FlagPair(results, lower(joined))

\* The body of the loop of _parse_extracted_texts for one region's text.
RegionPair(results, text) ==
    IF LinesOf(text) = <<>> THEN results
    ELSE RegionPairOf(results, LinesOf(text), Joined(LinesOf(text)))

\* PDFParser._parse_extracted_texts, on the texts of the regions in order.
RECURSIVE parse_extracted_texts(_, _)
parse_extracted_texts(texts, results) ==
    IF texts = <<>> THEN results
    ELSE parse_extracted_texts(Tail(texts), RegionPair(results, Head(texts)))

-----------------------------------------------------------------------------
(* Specification SpecParser: calls of parse and clear_auto_params on one
   PDFParser, and a caller that writes to the dict parse returned *)

\* The references of dicts.  Two dicts are in use at any time, the parser's and
\* the caller's, and a third exists while one of them is being replaced.
Refs == 1..3

\* The reference a new dict gets: the lowest one not in use.
FreeRef(objs) ==
    CHOOSE r \in Refs \ DOMAIN objs : \A q \in Refs \ DOMAIN objs : r <= q

\* The memory with a new dict d in it.
New(objs, d) == [r \in DOMAIN objs \cup {FreeRef(objs)} |-> IF r \in DOMAIN objs THEN objs[r] ELSE d]

\* The memory once the dicts nothing refers to any more are freed.
Live(objs, refs) == [r \in DOMAIN objs \cap refs |-> objs[r]]

\* A modal selection has at most MaxRegions regions.
MaxRegions == 2

\* The files of the machine, and the paths a caller passes.
ExistingFiles == {"report.pdf", "damaged.pdf"}
OpenableFiles == {"report.pdf"}
Paths == ExistingFiles \cup {"missing.pdf"}

\* What PyMuPDF or OCR reads in a selected region.
RegionTexts ==
    {Hemoglobin \o <<" ", "1", "4", "5">>,
     Hemoglobin \o <<":", "\n", "1", "3", "0">>,
     Glucose \o <<" ", "|", " ", CjkChar, " ", "5", ".", "5", "%">>,
     <<"H", "I", "V", " ", "N", "e", "g", "a", "t", "i", "v", "e">>,
     <<>>}

\* extract_selected_regions_text: the texts of the regions, in order.
Extractions == SeqsUpTo(RegionTexts, MaxRegions)

\* _parse_extracted_texts on each extraction of the model, computed once.
ParsedRows == {<<texts, parse_extracted_texts(texts, <<>>)>> : texts \in Extractions}

\* parsed = self._parse_extracted_texts(extracted)
ParsedOf(extracted) == (CHOOSE row \in ParsedRows : row[1] = extracted)[2]

\* Variant of Update: the parsed pairs replace what was stored.
UpdateReplacing(d, pairs) == pairs

\* dict.update: the pairs added, a key already present takes the new value.
Update(d, pairs) ==
    [k \in DOMAIN d \cup DOMAIN pairs |-> IF k \in DOMAIN pairs THEN pairs[k] ELSE d[k]]

\* PDFParser.__init__: self.auto_params = {}
InitParser ==
    /\ AnalyzeUnused
    /\ ColorUnused
    /\ target_keys = <<>>
    /\ alias_map = <<>>
    /\ input_name = <<>>
    /\ match = <<"(unused)">>
    /\ extracted_data = <<>>
    /\ normalized_data = <<>>
    /\ threads = <<>>
    /\ objects = [r \in {1} |-> <<>>]
    /\ auto_params = 1
    /\ returned = 0
    /\ parsed = <<>>
    /\ last_call = [op |-> "__init__"]
    /\ waiting = <<>>
    /\ DialogIdle
    /\ AppIdle

otherVars ==
    <<healthy_data, raw_data, pc, status_dict, summary_lines, calls, raised,
      user_val_num, healthy_str, min_str, max_str, tolerance, color, status,
      target_keys, alias_map, input_name, match, extracted_data, normalized_data,
      threads, dialog, drawn, app, ui_effect, fresh>>

ParseCall(filepath, how) == [op |-> "parse", filepath |-> filepath, ended |-> how]

\* return dict(self.auto_params): a new dict with the pairs of objs[ref], which
\* takes the place of the dict the caller had.
ReturnsCopy(objs, ref) ==
    /\ objects' = Live(New(objs, objs[ref]), {ref, FreeRef(objs)})
    /\ returned' = FreeRef(objs)

\* dlg.exec() runs a nested event loop: while a call of parse waits in it, the
\* callbacks that loop dispatches can call the parser again.  At most MaxNesting
\* calls of parse wait at a time.
MaxNesting == 2

\* A call of parse that waits in dlg.exec().
Waiting(filepath) == [filepath |-> filepath]

\* The calls that still wait when the innermost one goes on.
Outer(frames) == SubSeq(frames, 1, Len(frames) - 1)

Innermost(frames) == frames[Len(frames)]

\* parse(filepath), the path does not exist: raise FileNotFoundError(filepath).
ParseMissing(filepath) ==
    /\ filepath \notin ExistingFiles
    /\ last_call' = ParseCall(filepath, "FileNotFoundError")
    /\ UNCHANGED waiting
    /\ UNCHANGED <<objects, auto_params, returned, parsed>>
    /\ UNCHANGED otherVars

\* parse(filepath), fitz.open raises in PDFSelectionDialog.__init__.
ParseUnreadable(filepath) ==
    /\ filepath \in ExistingFiles \ OpenableFiles
    /\ last_call' = ParseCall(filepath, "exception of fitz.open")
    /\ UNCHANGED waiting
    /\ UNCHANGED <<objects, auto_params, returned, parsed>>
    /\ UNCHANGED otherVars

\* parse(filepath) up to dlg.exec(): the path exists, the dialog is built and
\* the call waits in the dialog's event loop.
ParseOpens(filepath) ==
    /\ filepath \in OpenableFiles
    /\ Len(waiting) < MaxNesting
    /\ last_call' = ParseCall(filepath, "exec")
    /\ waiting' = Append(waiting, Waiting(filepath))
    /\ UNCHANGED <<objects, auto_params, returned, parsed>>
    /\ UNCHANGED otherVars

\* dlg.exec() of the innermost call returns without Accepted:
\* return dict(self.auto_params).
ParseCancelled ==
    /\ waiting # <<>>
    /\ last_call' = ParseCall(Innermost(waiting).filepath, "cancelled")
    /\ waiting' = Outer(waiting)
    /\ ReturnsCopy(objects, auto_params)
    /\ UNCHANGED <<auto_params, parsed>>
    /\ UNCHANGED otherVars

\* self.auto_params.update(parsed); return dict(self.auto_params)
MergeAndReturn(pairs) ==
    /\ parsed' = pairs
    /\ ReturnsCopy([objects EXCEPT ![auto_params] = Update(@, pairs)], auto_params)

\* dlg.exec() of the innermost call returns Accepted, and the regions selected
\* hold texts: they are parsed and merged into auto_params.
ParseAccepted(texts) ==
    /\ waiting # <<>>
    /\ last_call' = ParseCall(Innermost(waiting).filepath, "accepted")
    /\ waiting' = Outer(waiting)
    /\ MergeAndReturn(ParsedOf(texts))
    /\ UNCHANGED auto_params
    /\ UNCHANGED otherVars

\* clear_auto_params: self.auto_params = {}
ClearAutoParams ==
    /\ last_call' = [op |-> "clear_auto_params"]
    /\ UNCHANGED waiting
    /\ objects' = Live(New(objects, <<>>), {FreeRef(objects), returned})
    /\ auto_params' = FreeRef(objects)
    /\ UNCHANGED <<returned, parsed>>
    /\ UNCHANGED otherVars

\* The caller of parse writes to the dict it got: d[name] = value.
CallerSets(name, value) ==
    /\ returned # 0
    /\ last_call' = [op |-> "caller sets"]
    /\ objects' = [objects EXCEPT ![returned] = Put(@, name, value)]
    /\ UNCHANGED <<auto_params, returned, parsed, waiting>>
    /\ UNCHANGED otherVars

\* The caller of parse empties the dict it got: d.clear().
CallerClears ==
    /\ returned # 0
    /\ last_call' = [op |-> "caller clears"]
    /\ objects' = [objects EXCEPT ![returned] = <<>>]
    /\ UNCHANGED <<auto_params, returned, parsed, waiting>>
    /\ UNCHANGED otherVars

\* The calls on the parser, made by the program or by a callback of the event
\* loop a waiting parse runs.
NextParser ==
    \/ \E filepath \in Paths : ParseMissing(filepath)
    \/ \E filepath \in Paths : ParseUnreadable(filepath)
    \/ \E filepath \in Paths : ParseOpens(filepath)
    \/ ParseCancelled
    \/ \E texts \in Extractions : ParseAccepted(texts)
    \/ ClearAutoParams
    \/ CallerSets(Hemoglobin, <<"0">>)
    \/ CallerClears

SpecParser == InitParser /\ [][NextParser]_vars

-----------------------------------------------------------------------------
(* RegionCanvas and PDFSelectionDialog *)

\* A rectangle as the canvas holds it: its width and height in widget pixels.
QRect(w, h) == [width |-> w, height |-> h]

\* The buttons of the mouse: Qt.LeftButton and another one.
LeftButton == "LeftButton"
RightButton == "RightButton"

\* RegionCanvas.__init__
NewCanvas == [selections |-> <<>>, current_rect |-> None, start_pos |-> None]

\* RegionCanvas.mousePressEvent: QRect(pos, pos) is one pixel wide and high.
mousePressEvent(canvas, button, pos) ==
    IF button = LeftButton
    THEN [canvas EXCEPT !.start_pos = Some(pos), !.current_rect = Some(QRect(1, 1))]
    ELSE canvas

\* RegionCanvas.mouseMoveEvent; rect is QRect(self._start_pos, event.pos())
\* after normalized().
mouseMoveEvent(canvas, rect) ==
    IF canvas.start_pos # None THEN [canvas EXCEPT !.current_rect = Some(rect)] ELSE canvas

\* RegionCanvas.mouseReleaseEvent; rect is QRect(self._start_pos, event.pos())
\* after normalized().  With the left button and a drag begun, a rectangle of
\* more than 5 by 5 pixels is appended to the selections, a smaller one is
\* dropped, and the drag ends.
mouseReleaseEvent(canvas, button, rect) ==
    IF button = LeftButton /\ canvas.start_pos # None
    THEN [canvas EXCEPT !.selections = IF rect.width > 5 /\ rect.height > 5
                                       THEN Append(@, rect) ELSE @,
                        !.start_pos = None,
                        !.current_rect = None]
    ELSE canvas

\* RegionCanvas.clear_last_selection
clear_last_selection(canvas) ==
    IF canvas.selections # <<>>
    THEN [canvas EXCEPT !.selections = SubSeq(@, 1, Len(@) - 1)]
    ELSE canvas

\* RegionCanvas.clear_all
canvas_clear_all(canvas) == [canvas EXCEPT !.selections = <<>>]

\* RegionCanvas.selections
selections(canvas) == canvas.selections

\* page_selections is a dict from page to rectangles.

\* PDFSelectionDialog.__init__ on a document of page_count pages: no selections,
\* and _show_page(0) puts an empty canvas on page 0.  The dialog is then run by
\* exec(): state is "open" until accept() or reject() sets the result.
NewDialog(page_count) ==
    [state |-> "open", event |-> "__init__",
     page_count |-> page_count,
     page_selections |-> <<>>,
     current_page_index |-> 0,
     canvas |-> NewCanvas,
     extracted |-> <<>>]

\* The canvas _show_page builds for the page shown.
CanvasOf(page_selections, shown) ==
    [NewCanvas EXCEPT !.selections = GetItem(page_selections, shown, <<>>)]

\* Variant of show_page: the canvas being left is not saved.
show_page_without_save(dlg, index) ==
    LET shown == Max(0, IF index <= dlg.page_count - 1 THEN index ELSE dlg.page_count - 1)
    IN [dlg EXCEPT !.current_page_index = shown,
                   !.canvas = CanvasOf(dlg.page_selections, shown)]

\* PDFSelectionDialog._show_page once the dialog has a canvas: the canvas's
\* selections are stored under the page being left, and a new canvas gets the
\* selections stored for the page shown.
show_page(dlg, index) ==
    LET saved == SetItem(dlg.page_selections, dlg.current_page_index, selections(dlg.canvas))
        shown == Max(0, IF index <= dlg.page_count - 1 THEN index ELSE dlg.page_count - 1)
    IN [dlg EXCEPT !.page_selections = saved,
                   !.current_page_index = shown,
                   !.canvas = CanvasOf(saved, shown)]

\* PDFSelectionDialog._on_prev
on_prev(dlg) ==
    IF dlg.current_page_index > 0 THEN show_page(dlg, dlg.current_page_index - 1) ELSE dlg

\* PDFSelectionDialog._on_next
on_next(dlg) ==
    IF dlg.current_page_index < dlg.page_count - 1
    THEN show_page(dlg, dlg.current_page_index + 1)
    ELSE dlg

\* PDFSelectionDialog._on_delete_last
on_delete_last(dlg) ==
    LET left == clear_last_selection(dlg.canvas)
    IN [dlg EXCEPT !.canvas = left,
                   !.page_selections = SetItem(dlg.page_selections, dlg.current_page_index,
                                               selections(left))]

\* The (page, rectangle) pairs of one page's selections, in order.
RegionsOf(page_idx, rects) == [i \in 1..Len(rects) |-> [page_idx |-> page_idx, rect |-> rects[i]]]

\* PDFSelectionDialog.extract_selected_regions_text: the regions it processes, in
\* the order of page_selections.items(); the text of a region is the document's.
RECURSIVE extract_selected_regions(_, _)
extract_selected_regions(items, extracted) ==
    IF items = <<>> THEN extracted
    ELSE extract_selected_regions(Tail(items),
                                  extracted \o RegionsOf(Head(items).k, Head(items).v))

-----------------------------------------------------------------------------
(* Specification SpecDialog: one PDFSelectionDialog, from __init__ and exec()
   in PDFParser.parse to the extraction parse makes once exec() has returned *)

\* The document has at most MaxPages pages.
MaxPages == 2

\* At most MaxRects rectangles are drawn and not deleted at a time.
MaxRects == 2

Pages(page_count) == 0..(page_count - 1)

\* Where the mouse is pressed.
PressPoints == {<<10, 10>>}

\* Drags of the mouse: two that are recorded, one too narrow, one too flat.
Drags == {QRect(6, 6), QRect(40, 12), QRect(5, 30), QRect(30, 5)}

Buttons == {LeftButton, RightButton}

RECURSIVE TotalLen(_, _)
TotalLen(f, keys) ==
    IF keys = {} THEN 0
    ELSE LET key == CHOOSE key \in keys : TRUE
         IN Len(f[key]) + TotalLen(f, keys \ {key})

InitDialog ==
    /\ AnalyzeUnused
    /\ ColorUnused
    /\ target_keys = <<>>
    /\ alias_map = <<>>
    /\ input_name = <<>>
    /\ match = <<"(unused)">>
    /\ extracted_data = <<>>
    /\ normalized_data = <<>>
    /\ threads = <<>>
    /\ ParserIdle
    /\ AppIdle
    /\ \E page_count \in 1..MaxPages :
          /\ dialog = NewDialog(page_count)
          /\ drawn = [p \in Pages(page_count) |-> <<>>]

\* exec() runs the dialog's event loop and no result is set.
DialogOpen == dialog.state = "open"

\* exec() has not returned to parse: the loop still delivers events and calls
\* slots, also once accept() or reject() has set the result.
ExecRunning == dialog.state \in {"open", "accepted", "rejected"}

\* The rectangles the user has drawn once the canvas took the release of the
\* button: one more if it ended a drag of the left button that is large enough.
DrawnAfter(rects, canvas, button, rect) ==
    IF button = LeftButton /\ canvas.start_pos # None /\ rect.width > 5 /\ rect.height > 5
    THEN Append(rects, rect)
    ELSE rects

\* A button of the mouse goes down on the canvas.
Press(button, pos) ==
    /\ ExecRunning
    /\ dialog' = [dialog EXCEPT !.event = "press",
                                !.canvas = mousePressEvent(@, button, pos)]
    /\ UNCHANGED drawn
    /\ UNCHANGED <<analyzeVars, colorVars, normVars, threadVars, parserVars, appVars>>

\* The mouse moves over the canvas.
Move(rect) ==
    /\ ExecRunning
    /\ dialog' = [dialog EXCEPT !.event = "move",
                                !.canvas = mouseMoveEvent(@, rect)]
    /\ UNCHANGED drawn
    /\ UNCHANGED <<analyzeVars, colorVars, normVars, threadVars, parserVars, appVars>>

\* A button of the mouse goes up on the canvas.
Release(button, rect) ==
    /\ ExecRunning
    /\ TotalLen(drawn, DOMAIN drawn) < MaxRects
    /\ dialog' = [dialog EXCEPT !.event = "release",
                                !.canvas = mouseReleaseEvent(@, button, rect)]
    /\ drawn' = [drawn EXCEPT ![dialog.current_page_index] =
                                  DrawnAfter(@, dialog.canvas, button, rect)]
    /\ UNCHANGED <<analyzeVars, colorVars, normVars, threadVars, parserVars, appVars>>

\* The user presses Delete Last Selection.
DeleteLast ==
    /\ ExecRunning
    /\ dialog' = [on_delete_last(dialog) EXCEPT !.event = "delete"]
    /\ drawn' = [drawn EXCEPT ![dialog.current_page_index] = SubSeq(@, 1, Len(@) - 1)]
    /\ UNCHANGED <<analyzeVars, colorVars, normVars, threadVars, parserVars, appVars>>

\* RegionCanvas.clear_all is called on the canvas shown: its rectangles are
\* deleted.
ClearCanvas ==
    /\ ExecRunning
    /\ dialog' = [dialog EXCEPT !.event = "clear_all", !.canvas = canvas_clear_all(@)]
    /\ drawn' = [drawn EXCEPT ![dialog.current_page_index] = <<>>]
    /\ UNCHANGED <<analyzeVars, colorVars, normVars, threadVars, parserVars, appVars>>

\* The user presses Previous.
Previous ==
    /\ ExecRunning
    /\ dialog' = [on_prev(dialog) EXCEPT !.event = "prev"]
    /\ UNCHANGED drawn
    /\ UNCHANGED <<analyzeVars, colorVars, normVars, threadVars, parserVars, appVars>>

\* The user presses Next.
NextPage ==
    /\ ExecRunning
    /\ dialog' = [on_next(dialog) EXCEPT !.event = "next"]
    /\ UNCHANGED drawn
    /\ UNCHANGED <<analyzeVars, colorVars, normVars, threadVars, parserVars, appVars>>

\* The user presses Done: accept() sets the result and ends the event loop.
DonePressed ==
    /\ ExecRunning
    /\ dialog' = [dialog EXCEPT !.state = "accepted", !.event = "done"]
    /\ UNCHANGED drawn
    /\ UNCHANGED <<analyzeVars, colorVars, normVars, threadVars, parserVars, appVars>>

\* The user presses Cancel: reject() sets the result and ends the event loop.
CancelPressed ==
    /\ ExecRunning
    /\ dialog' = [dialog EXCEPT !.state = "rejected", !.event = "cancel"]
    /\ UNCHANGED drawn
    /\ UNCHANGED <<analyzeVars, colorVars, normVars, threadVars, parserVars, appVars>>

\* exec() returns to parse.  With Accepted parse calls
\* extract_selected_regions_text on the dialog as it is now; otherwise it
\* returns and nothing is extracted.
ExecReturns ==
    /\ dialog.state \in {"accepted", "rejected"}
    /\ dialog' = IF dialog.state = "accepted"
                 THEN [dialog EXCEPT !.state = "extracted", !.event = "exec returns",
                                     !.extracted = extract_selected_regions(dialog.page_selections, <<>>)]
                 ELSE [dialog EXCEPT !.state = "cancelled", !.event = "exec returns"]
    /\ UNCHANGED drawn
    /\ UNCHANGED <<analyzeVars, colorVars, normVars, threadVars, parserVars, appVars>>

NextDialog ==
    \/ \E button \in Buttons, pos \in PressPoints : Press(button, pos)
    \/ \E rect \in Drags : Move(rect)
    \/ \E button \in Buttons, rect \in Drags : Release(button, rect)
    \/ DeleteLast
    \/ ClearCanvas
    \/ Previous
    \/ NextPage
    \/ DonePressed
    \/ CancelPressed
    \/ ExecReturns

SpecDialog == InitDialog /\ [][NextDialog]_vars

-----------------------------------------------------------------------------
(* BloodAnalyzerApp: Open File, Extract Data, Clear All, Submit, Export *)

\* PDFParser.__init__: the parser object holds auto_params and nothing else.  It
\* has neither an attribute fulltext nor a method clear_data.
NewParserData == [auto_params |-> <<>>]

\* DoclingWorker on a readable PDF: the parser holds the document's text.
docling_read(parser, text) == [auto_params |-> parser.auto_params, fulltext |-> text]

\* LLMWorker on success: the parser holds the extracted data.
llm_extract(parser, parsed_data) == [parser EXCEPT !.auto_params = parsed_data]

\* The data an extraction gives: the dict {"tests": ...} of the tests in the
\* report's order, or the empty dict.
Report(tests) == [tests |-> tests]

\* d.get("tests", {})
TestsOf(d) == IF "tests" \in DOMAIN d THEN d.tests ELSE <<>>

\* self.analyzer.analyze(raw, **kwargs) as Python binds the call to
\* def analyze(self, raw_data): a keyword argument that is no parameter is a
\* TypeError, and the aggregation does not run.
analyze_call(tests, raw, kwargs) ==
    IF Binds(<<"raw_data">>, 1, DOMAIN kwargs)
    THEN AnalyzeResult(Loop(tests, raw, EmptyRun))
    ELSE [raised |-> TRUE, status_dict |-> <<>>, summary_lines |-> <<>>]

\* The window's fields as __init__ and load_data assign them: one input field and
\* one status label per catalog test, nothing analysed, no PDF, Extract Data
\* disabled, the parser as PDFParser.__init__ leaves it.  The window runs in Qt's
\* event loop: modal holds the modal dialogs whose nested loop a handler waits
\* in, the innermost last; progress says that self.progress is shown; docling and
\* llm hold the worker threads started whose finished_signal has not been handled
\* yet.
Window(names) ==
    [state |-> "shown",
     param_inputs |-> [n \in names |-> <<>>],
     status_labels |-> [n \in names |-> "-"],
     param_autos |-> <<>>,
     analysed |-> <<>>,
     summary_box |-> <<>>,
     current_pdf_path |-> None,
     extract_enabled |-> FALSE,
     parser |-> NewParserData,
     modal |-> <<>>,
     progress |-> FALSE,
     docling |-> <<>>,
     llm |-> <<>>]

\* BloodAnalyzerApp.__init__, given the keyword arguments with which it calls
\* PDFParser: when they do not bind to def __init__(self) of PDFParser the call
\* raises TypeError, __init__ ends there and there is no window.  main.py passes
\* llm_client.
NewApp(names, parser_keywords) ==
    IF Binds(<<>>, 0, parser_keywords)
    THEN Window(names)
    ELSE [state |-> "TypeError"]

\* A modal dialog a handler waits in: its kind, the line of main.py that opened
\* it, and for llm_progress whether it was closed.
Modal(kind, at, closed) == [kind |-> kind, at |-> at, closed |-> closed]

\* QMessageBox.information, .warning or .critical called at a line of main.py.
MessageBox(at) == Modal("QMessageBox", at, FALSE)

Top(a) == a.modal[Len(a.modal)]

TopIs(a, kind) == a.modal # <<>> /\ Top(a).kind = kind

Pop(a) == [a EXCEPT !.modal = SubSeq(@, 1, Len(@) - 1)]

Push(a, frame) == [a EXCEPT !.modal = Append(@, frame)]

\* QThread.start on a new worker, which self.worker or self.llm_worker now
\* refers to.
Started(workers) ==
    Append([i \in 1..Len(workers) |-> [workers[i] EXCEPT !.latest = FALSE]],
           [state |-> "running", latest |-> TRUE, result |-> <<>>, message |-> <<>>])

\* The worker's run method ends and emits finished_signal with a result and a
\* message, which is queued for the window's thread.
Finished(worker, result, message) ==
    [worker EXCEPT !.state = "finished", !.result = result, !.message = message]

\* The workers in flight once the signal of worker i is handled, or the worker
\* is terminated.
Handled(workers, i) == SubSeq(workers, 1, i - 1) \o SubSeq(workers, i + 1, Len(workers))

\* on_open_pdf_clicked once QFileDialog.getOpenFileName has returned filepath:
\* without a path nothing; otherwise the path is kept, the progress dialog is
\* shown and the DoclingWorker is started.
on_open_pdf_clicked(a, filepath) ==
    IF filepath = <<>> THEN a
    ELSE [a EXCEPT !.current_pdf_path = Some(filepath),
                   !.progress = TRUE,
                   !.docling = Started(@)]

\* The DoclingWorker i ends: on success the parser holds the document's text and
\* the signal carries it; otherwise the signal carries an error message.
docling_worker_ends(a, i, text, success) ==
    [a EXCEPT !.docling[i] = Finished(@, IF success THEN text ELSE <<>>,
                                         IF success THEN <<>> ELSE <<"e">>),
              !.parser = IF success THEN docling_read(a.parser, text) ELSE a.parser]

\* on_docling_finished up to its message box: the progress dialog is closed and
\* the box is shown, information on success and critical otherwise.
on_docling_finished(a, i) ==
    Push([a EXCEPT !.docling = Handled(@, i), !.progress = FALSE],
         MessageBox(IF a.docling[i].message = <<>> THEN 245 ELSE 249))

\* populate_ui_from_data up to its message box: nothing for data that is None or
\* the empty dict; otherwise the normalised values go into the fields that exist
\* and into param_autos, and the box that counts them is shown, also when there
\* are none.
populate_ui_from_data(a, parsed_data, targets, aliases) ==
    LET clean_data == normalize(TestsOf(parsed_data), targets, aliases, <<>>)
        filled == DOMAIN clean_data \cap DOMAIN a.param_inputs
    IN IF parsed_data = <<>> THEN a
       ELSE Push([a EXCEPT !.param_inputs = [n \in DOMAIN a.param_inputs |->
                                                IF n \in filled THEN clean_data[n]
                                                ELSE a.param_inputs[n]],
                           !.param_autos = [n \in DOMAIN a.param_autos \cup filled |->
                                               IF n \in filled THEN clean_data[n]
                                               ELSE a.param_autos[n]]],
                 MessageBox(320))

\* A handler goes on when the message box it waits in is closed:
\* on_docling_finished enables Extract Data after its information box and
\* disables it after its critical box; on_llm_finished shows its own box after
\* that of populate_ui_from_data; after every other box the handler returns.
message_box_closed(a) ==
    IF Top(a).at = 245 THEN [Pop(a) EXCEPT !.extract_enabled = TRUE]
    ELSE IF Top(a).at = 249 THEN [Pop(a) EXCEPT !.extract_enabled = FALSE]
    ELSE IF Top(a).at = 320 THEN Push(Pop(a), MessageBox(290))
    ELSE Pop(a)

\* How on_extract_clicked goes at its first line: reading self.parser.fulltext of
\* a parser without that attribute raises AttributeError; without text the
\* warning is shown; otherwise the extraction starts.
ExtractOutcome(a) ==
    IF "fulltext" \notin DOMAIN a.parser THEN "AttributeError"
    ELSE IF a.parser.fulltext = <<>> THEN "warning"
    ELSE "started"

\* on_extract_clicked up to the dialog it waits in: the warning box, or, with
\* the LLMWorker started, llm_progress.exec().
on_extract_clicked(a) ==
    IF ExtractOutcome(a) = "AttributeError" THEN a
    ELSE IF ExtractOutcome(a) = "warning" THEN Push(a, MessageBox(255))
    ELSE Push([a EXCEPT !.llm = Started(@)], Modal("llm_progress", 276, FALSE))

\* The LLMWorker i ends: on success the parser holds the extracted data, and
\* the signal carries (parsed_data, ""); otherwise (nothing, error_msg).
llm_worker_ends(a, i, parsed_data, error_msg) ==
    [a EXCEPT !.llm[i] = Finished(@, IF error_msg = <<>> THEN parsed_data ELSE <<>>, error_msg),
              !.parser = IF error_msg = <<>> THEN llm_extract(a.parser, parsed_data)
                         ELSE a.parser]

\* self.llm_progress.close()
llm_progress_close(frames) ==
    [j \in 1..Len(frames) |->
        IF frames[j].kind = "llm_progress" THEN Modal("llm_progress", 276, TRUE) ELSE frames[j]]

Thread == <<"t", "h", "r", "e", "a", "d">>

\* on_llm_finished up to the message box it waits in: the progress dialog is
\* closed; an error message is shown unless it mentions a thread; otherwise the
\* fields are filled, and when the data is empty the success box comes at once.
on_llm_finished(a, i, targets, aliases) ==
    LET closed == [a EXCEPT !.llm = Handled(@, i), !.modal = llm_progress_close(@)]
        error_msg == a.llm[i].message
    IN IF error_msg # <<>>
       THEN IF ~Contains(lower(error_msg), Thread) THEN Push(closed, MessageBox(285))
            ELSE closed
       ELSE IF a.llm[i].result = <<>> THEN Push(closed, MessageBox(290))
       ELSE populate_ui_from_data(closed, a.llm[i].result, targets, aliases)

\* cancel_llm_worker: self.llm_worker is terminated if it is running.
cancel_llm_worker(a) ==
    LET running == {i \in 1..Len(a.llm) : a.llm[i].latest /\ a.llm[i].state = "running"}
    IN IF running = {} THEN a
       ELSE [a EXCEPT !.llm = Handled(@, CHOOSE i \in running : TRUE)]

\* BloodAnalyzerApp.clear_all: the fields, the summary and the labels are
\* cleared, param_autos and analysed are emptied, and self.parser.clear_data()
\* raises AttributeError, PDFParser having no such method.  The lines after it,
\* which disable Extract Data and forget the PDF, are not run, and the parser
\* keeps what it holds.
clear_all(a) ==
    [a EXCEPT !.param_inputs = [n \in DOMAIN a.param_inputs |-> <<>>],
              !.summary_box = <<>>,
              !.status_labels = [n \in DOMAIN a.status_labels |-> "-"],
              !.param_autos = <<>>,
              !.analysed = <<>>]

\* The units the extraction reported, by the canonical name each test resolves to.
RECURSIVE ai_units_map(_, _, _, _)
ai_units_map(tests, targets, aliases, units) ==
    IF tests = <<>> THEN units
    ELSE LET canonical == find_best_match(Head(tests).name, targets, aliases)
         IN ai_units_map(Tail(tests), targets, aliases,
                         IF Head(tests).unit # <<>> /\ Truthy(canonical)
                         THEN Put(units, canonical, Head(tests).unit) ELSE units)

\* The label submit_data writes for a status.
LabelOf(st) ==
    IF st = "green" THEN "Normal"
    ELSE IF st = "yellow" THEN "Slightly High/Low"
    ELSE IF st = "red" THEN "Abnormal"
    ELSE IF st = "empty" THEN "Not Tested"
    ELSE "Check Manually"

\* What submit_data passes to analyze: the fields' texts, trimmed.
FormValues(a) == [n \in DOMAIN a.param_inputs |-> strip(a.param_inputs[n])]

\* BloodAnalyzerApp.submit_data with the result of its call of analyze: an
\* exception leaves the window as it was, before anything is assigned.
submit_data(a, result) ==
    IF result.raised THEN a
    ELSE [a EXCEPT !.analysed = result.status_dict,
                   !.summary_box = result.summary_lines,
                   !.status_labels = [n \in DOMAIN a.status_labels |->
                                         IF n \in DOMAIN result.status_dict
                                         THEN LabelOf(result.status_dict[n].status)
                                         ELSE a.status_labels[n]]]

\* What export_data does once QFileDialog.getSaveFileName has returned
\* save_path: without a path nothing; otherwise the exporter is called with what
\* the window holds now, and it may fail.
export_data(a, save_path, export_fails) ==
    IF save_path = <<>> THEN [op |-> "export", did |-> "cancelled"]
    ELSE [op |-> "export",
          did |-> IF export_fails THEN "export failed" ELSE "exported",
          analyzed_data |-> a.analysed, summary_text |-> a.summary_box, filepath |-> save_path]

\* export_data after the exporter: the information box, or the critical box for
\* an exception.
export_box(a, save_path, export_fails) ==
    IF save_path = <<>> THEN a
    ELSE Push(a, MessageBox(IF export_fails THEN 442 ELSE 435))

-----------------------------------------------------------------------------
(* Specification SpecApp: the window in its event loop, with the user, the modal
   dialogs and the worker threads *)

\* Catalogs of the window: none of its tests, or Hemoglobin with min and max.
AppCatalogs ==
    {c \in {[categories |-> <<>>],
            [categories |-> <<[name |-> <<"c">>,
                               tests |-> <<[name |-> Hemoglobin,
                                            units |-> <<"g", "/", "L">>,
                                            min |-> <<"1", "2", "0">>,
                                            max |-> <<"1", "5", "0">>]>>]>>]} :
        LoadsData(CatalogTests(c.categories))}

\* Texts the user types into a field.
FieldTexts == {<<"1", "4", "5">>, <<" ", "1", "1", "9">>}

\* What the extraction reports: the empty dict, no test, a test under an alias
\* with a unit, or one that does not resolve.
AppReports ==
    {<<>>,
     Report(<<>>),
     Report(<<[name |-> Haemoglobin, value |-> IntValue(130), unit |-> <<"g", "/", "L">>]>>),
     Report(<<[name |-> HGB, value |-> StrValue(<<"1", "4", "5">>), unit |-> <<>>]>>)}

\* The error message of an LLMWorker: none, one of the service, one of a thread
\* that was stopped.
LlmErrors == {<<>>, <<"A", "P", "I">>, <<"T", "h", "r", "e", "a", "d">>}

\* The text Docling reads from a PDF: none, or some.
PdfTexts == {<<>>, <<"t">>}

PdfPaths == {<<>>, <<"a", ".", "p", "d", "f">>}

\* main.py's call PDFParser(llm_client=llm_client) raises TypeError in
\* BloodAnalyzerApp.__init__: the program ends with the traceback and shows no
\* window.  The handlers are followed on the window whose parser is PDFParser().
InitApp ==
    /\ healthy_data \in AppCatalogs
    /\ raw_data = <<>>
    /\ pc = "unused"
    /\ status_dict = <<>>
    /\ summary_lines = <<>>
    /\ calls = <<>>
    /\ raised = FALSE
    /\ ColorUnused
    /\ target_keys = KeysOf(CatalogTests(healthy_data.categories), <<>>)
    /\ alias_map = load_alias_map(Json(<<Pair(Haemoglobin, Hemoglobin)>>))
    /\ input_name = <<>>
    /\ match = <<"(unused)">>
    /\ extracted_data = <<>>
    /\ normalized_data = <<>>
    /\ threads = <<>>
    /\ ParserIdle
    /\ DialogIdle
    /\ \E parser_keywords \in ParserKeywords :
          app = NewApp({target_keys[i] : i \in 1..Len(target_keys)}, parser_keywords)
    /\ ui_effect = [op |-> "__init__"]
    /\ fresh = FALSE

notAppVars == <<analyzeVars, colorVars, normVars, threadVars, parserVars, dialogVars>>

\* At most MaxWorkers threads are started and not yet handled at a time.
MaxWorkers == 1

InFlight(a) == Len(a.docling) + Len(a.llm)

\* There is a window, and Qt's event loop runs.
Shown == app.state = "shown"

\* The main window takes the user's clicks and keys: no handler waits in a modal
\* dialog (a file dialog, a message box, llm_progress) and the window-modal
\* progress dialog is not shown.  The event loop of a modal dialog gives the
\* user's input to that dialog only, but it calls the slots of the signals the
\* worker threads have emitted.
UserCanClick == Shown /\ app.modal = <<>> /\ ~app.progress

\* The user types into the field of a test.
TypeInto(n, text) ==
    /\ UserCanClick
    /\ n \in DOMAIN app.param_inputs
    /\ app' = [app EXCEPT !.param_inputs[n] = text]
    /\ ui_effect' = [op |-> "type"]
    /\ UNCHANGED fresh
    /\ UNCHANGED notAppVars

\* Open File is clicked: on_open_pdf_clicked waits in QFileDialog.getOpenFileName.
OpenClicked ==
    /\ UserCanClick
    /\ app' = Push(app, Modal("getOpenFileName", 220, FALSE))
    /\ ui_effect' = [op |-> "open", did |-> "file dialog"]
    /\ UNCHANGED fresh
    /\ UNCHANGED notAppVars

\* The user picks a path in the file dialog on top, or none, and the handler
\* that waits in it goes on: on_open_pdf_clicked to its end, export_data to the
\* message box after the exporter.
FileChosen(filepath, export_fails) ==
    /\ Shown
    /\ \/ /\ TopIs(app, "getOpenFileName")
          /\ filepath # <<>> => InFlight(app) < MaxWorkers
          /\ app' = on_open_pdf_clicked(Pop(app), filepath)
          /\ ui_effect' = [op |-> "open",
                           did |-> IF filepath = <<>> THEN "cancelled" ELSE "started"]
       \/ /\ TopIs(app, "getSaveFileName")
          /\ app' = export_box(Pop(app), filepath, export_fails)
          /\ ui_effect' = export_data(app, filepath, export_fails)
    /\ UNCHANGED fresh
    /\ UNCHANGED notAppVars

\* The user closes the progress dialog of Open File, which has no button, by its
\* window.
DismissProgress ==
    /\ Shown
    /\ app.modal = <<>>
    /\ app.progress
    /\ app' = [app EXCEPT !.progress = FALSE]
    /\ ui_effect' = [op |-> "dismiss"]
    /\ UNCHANGED fresh
    /\ UNCHANGED notAppVars

\* A DoclingWorker ends in its thread, having read the PDF or not.
DoclingWorkerEnds(i, text, success) ==
    /\ Shown
    /\ i \in DOMAIN app.docling
    /\ app.docling[i].state = "running"
    /\ app' = docling_worker_ends(app, i, text, success)
    /\ ui_effect' = [op |-> "DoclingWorker"]
    /\ UNCHANGED fresh
    /\ UNCHANGED notAppVars

\* The event loop that runs calls on_docling_finished for a worker that has
\* ended; the slot waits in its message box.
DoclingFinished(i) ==
    /\ Shown
    /\ i \in DOMAIN app.docling
    /\ app.docling[i].state = "finished"
    /\ app' = on_docling_finished(app, i)
    /\ ui_effect' = [op |-> "docling finished"]
    /\ UNCHANGED fresh
    /\ UNCHANGED notAppVars

\* The user closes the message box on top, and the handler that waits in it
\* goes on.
MessageBoxClosed ==
    /\ Shown
    /\ TopIs(app, "QMessageBox")
    /\ app' = message_box_closed(app)
    /\ ui_effect' = [op |-> "message box", at |-> Top(app).at]
    /\ UNCHANGED fresh
    /\ UNCHANGED notAppVars

\* Extract Data is clicked, which can be done only while it is enabled.
ExtractClicked ==
    /\ UserCanClick
    /\ app.extract_enabled
    /\ ExtractOutcome(app) = "started" => InFlight(app) < MaxWorkers
    /\ app' = on_extract_clicked(app)
    /\ ui_effect' = [op |-> "extract", did |-> ExtractOutcome(app)]
    /\ UNCHANGED fresh
    /\ UNCHANGED notAppVars

\* An LLMWorker ends in its thread, with the tests it extracted or an error.
LlmWorkerEnds(i, parsed_data, error_msg) ==
    /\ Shown
    /\ i \in DOMAIN app.llm
    /\ app.llm[i].state = "running"
    /\ app' = llm_worker_ends(app, i, parsed_data, error_msg)
    /\ ui_effect' = [op |-> "LLMWorker"]
    /\ UNCHANGED fresh
    /\ UNCHANGED notAppVars

\* The event loop that runs calls on_llm_finished for a worker that has ended;
\* the slot waits in the message box it shows, if any.
LlmFinished(i) ==
    /\ Shown
    /\ i \in DOMAIN app.llm
    /\ app.llm[i].state = "finished"
    /\ app' = on_llm_finished(app, i, target_keys, alias_map)
    /\ ui_effect' = [op |-> "llm finished", error |-> app.llm[i].message # <<>>]
    /\ UNCHANGED fresh
    /\ UNCHANGED notAppVars

\* The user closes the progress dialog of Extract Data by its window: canceled
\* calls cancel_llm_worker and the dialog closes.
LlmProgressCancelled ==
    /\ Shown
    /\ TopIs(app, "llm_progress")
    /\ ~Top(app).closed
    /\ app' = [cancel_llm_worker(app) EXCEPT !.modal = llm_progress_close(@)]
    /\ ui_effect' = [op |-> "extract", did |-> "cancelled"]
    /\ UNCHANGED fresh
    /\ UNCHANGED notAppVars

\* llm_progress.exec() returns once the dialog is closed, and on_extract_clicked
\* ends.
LlmProgressReturns ==
    /\ Shown
    /\ TopIs(app, "llm_progress")
    /\ Top(app).closed
    /\ app' = Pop(app)
    /\ ui_effect' = [op |-> "extract", did |-> "returned"]
    /\ UNCHANGED fresh
    /\ UNCHANGED notAppVars

\* Clear All: clear_all ends in the AttributeError of self.parser.clear_data().
ClearAll ==
    /\ UserCanClick
    /\ app' = clear_all(app)
    /\ ui_effect' = [op |-> "clear", raised |-> "AttributeError"]
    /\ fresh' = FALSE
    /\ UNCHANGED notAppVars

\* Submit: submit_data calls analyze with the keyword extracted_units.
SubmitData ==
    LET result == analyze_call(CatalogTests(healthy_data.categories), FormValues(app),
                               [extracted_units |->
                                    ai_units_map(TestsOf(app.parser.auto_params),
                                                 target_keys, alias_map, <<>>)])
    IN /\ UserCanClick
       /\ app' = submit_data(app, result)
       /\ ui_effect' = [op |-> "submit", raised |-> result.raised]
       /\ fresh' = (fresh \/ (~result.raised /\ result.status_dict # <<>>))
       /\ UNCHANGED notAppVars

\* Export is clicked: without an analysis export_data shows its warning box;
\* otherwise it waits in QFileDialog.getSaveFileName.
ExportClicked ==
    /\ UserCanClick
    /\ app' = IF app.analysed = <<>> THEN Push(app, MessageBox(405))
              ELSE Push(app, Modal("getSaveFileName", 411, FALSE))
    /\ ui_effect' = [op |-> "export",
                     did |-> IF app.analysed = <<>> THEN "warning" ELSE "file dialog"]
    /\ UNCHANGED fresh
    /\ UNCHANGED notAppVars

NextApp ==
    \/ \E n \in {Hemoglobin}, text \in FieldTexts : TypeInto(n, text)
    \/ OpenClicked
    \/ \E filepath \in PdfPaths, export_fails \in BOOLEAN : FileChosen(filepath, export_fails)
    \/ DismissProgress
    \/ \E i \in 1..MaxWorkers, text \in PdfTexts, success \in BOOLEAN :
          DoclingWorkerEnds(i, text, success)
    \/ \E i \in 1..MaxWorkers : DoclingFinished(i)
    \/ MessageBoxClosed
    \/ ExtractClicked
    \/ \E i \in 1..MaxWorkers, parsed_data \in AppReports, error_msg \in LlmErrors :
          LlmWorkerEnds(i, parsed_data, error_msg)
    \/ \E i \in 1..MaxWorkers : LlmFinished(i)
    \/ LlmProgressCancelled
    \/ LlmProgressReturns
    \/ ClearAll
    \/ SubmitData
    \/ ExportClicked

SpecApp == InitApp /\ [][NextApp]_vars

-----------------------------------------------------------------------------
(* Properties of analyze (specification Spec) *)

Done == pc = "done"

TestsOfCatalog == CatalogTests(healthy_data.categories)

\* The canonical names of the catalog.
CatalogNames == {TestsOfCatalog[i].name : i \in 1..Len(TestsOfCatalog)}

StatusOf(n) == status_dict[n].status

\* The names a summary line with the given text lists (none when there is no such line).
NamesInLine(text) ==
    UNION {{summary_lines[i].tests[j] : j \in 1..Len(summary_lines[i].tests)} :
              i \in {k \in 1..Len(summary_lines) : summary_lines[k].text = text}}

\* A raw string with no character but blanks.
IsBlank(s) == \A i \in 1..Len(s) : s[i] = " "

\* No value was supplied for name n: the key is absent, or its string is blank.
NotSupplied(n) == n \notin DOMAIN raw_data \/ IsBlank(raw_data[n])

\* C1: record-set completeness.  When analyze has returned, the keys of the record
\* map are exactly the catalog's test names, whatever the outcome of each test.
C1_RecordSetComplete == Done => DOMAIN status_dict = CatalogNames

\* C1 witness: a returned map with two records, one of a test not performed and
\* one of a test whose value is not a number.
C1_Witness ==
    /\ Done
    /\ DOMAIN status_dict = {Hemoglobin, Glucose}
    /\ StatusOf(Hemoglobin) = "empty"
    /\ StatusOf(Glucose) = "uncheckable"

\* C4: empty short-circuit.  A catalog test whose name is absent from the raw
\* mapping, or whose raw string is empty or blank, gets status "empty" and value "",
\* is listed in the "Tests not performed" line, and neither float() nor
\* get_status_color is reached for it.
C4_EmptyShortCircuit ==
    Done =>
        \A i \in 1..Len(TestsOfCatalog) :
            LET n == TestsOfCatalog[i].name
            IN NotSupplied(n) =>
                  /\ StatusOf(n) = "empty"
                  /\ status_dict[n].value = <<>>
                  /\ n \in NamesInLine("Tests not performed: ")
                  /\ calls[i].test_name = n
                  /\ ~calls[i].float_called
                  /\ ~calls[i].color_called

\* C4 witness: the report named the test "HGB", which is no catalog name, so
\* Hemoglobin has no value and is not performed; Glucose was given a blank string.
C4_Witness ==
    /\ Done
    /\ HGB \in DOMAIN raw_data
    /\ Hemoglobin \notin DOMAIN raw_data
    /\ Glucose \in DOMAIN raw_data /\ raw_data[Glucose] = <<" ">>
    /\ CatalogNames = {Hemoglobin, Glucose}
    /\ StatusOf(Hemoglobin) = "empty"
    /\ StatusOf(Glucose) = "empty"

\* The raw strings of the pool that are neither blank nor numerals.
NonNumericValues == {<<"a", "b", "c">>}

HasNonNumeric(n) == n \in DOMAIN raw_data /\ raw_data[n] \in NonNumericValues

\* raw_data without the entry for n.
Without(n) == [k \in DOMAIN raw_data \ {n} |-> raw_data[k]]

\* The record map analyze computes for the catalog on another raw mapping.
RecordsFor(raw) == Loop(TestsOfCatalog, raw, EmptyRun).status_dict

\* C5: non-numeric values are absorbed.  analyze never raises; a test whose raw
\* string is not blank and not a number gets "uncheckable"; and that entry leaves
\* the status of every other test as it is without the entry.
C5_NonNumericAbsorbed ==
    Done =>
        /\ ~raised
        /\ \A n \in CatalogNames :
              HasNonNumeric(n) =>
                  /\ StatusOf(n) = "uncheckable"
                  /\ \A m \in CatalogNames \ {n} :
                        StatusOf(m) = RecordsFor(Without(n))[m].status

\* C5 witness: Glucose has the value "abc" and is uncheckable while Hemoglobin,
\* with " 5 " against min 120 / max 150, is red.
C5_Witness ==
    /\ Done
    /\ ~raised
    /\ CatalogNames = {Hemoglobin, Glucose}
    /\ HasNonNumeric(Glucose)
    /\ StatusOf(Glucose) = "uncheckable"
    /\ Hemoglobin \in DOMAIN raw_data
    /\ raw_data[Hemoglobin] = <<" ", "5", " ">>
    /\ StatusOf(Hemoglobin) = "red"

ClosedStatuses == {"green", "yellow", "red", "empty", "uncheckable"}

\* C7: closed status set.  Every record of a returned map has one of the five
\* statuses green, yellow, red, empty, uncheckable.
C7_ClosedStatusSet ==
    Done => \A n \in DOMAIN status_dict : StatusOf(n) \in ClosedStatuses

\* The catalog names no two tests share.
UniqueNames == Cardinality(CatalogNames) = Len(TestsOfCatalog)

\* The four summary lines in the order the summary gives them, each with the
\* status it is about.
BucketLines ==
    <<[text |-> "Abnormal results found in: ", status |-> "red"],
      [text |-> "Slightly outside healthy range: ", status |-> "yellow"],
      [text |-> "Within healthy range: ", status |-> "green"],
      [text |-> "Tests not performed: ", status |-> "empty"]>>

BucketStatuses == {BucketLines[b].status : b \in DOMAIN BucketLines}

\* The catalog's test names, in catalog order, whose record has status st.
NamesWithStatus(st) ==
    LET hits == SelectSeq(TestsOfCatalog, LAMBDA t : StatusOf(t.name) = st)
    IN [i \in 1..Len(hits) |-> hits[i].name]

\* The position of a line's text among the four (0 for any other text).
LineRank(line) ==
    IF \E b \in DOMAIN BucketLines : BucketLines[b].text = line.text
    THEN CHOOSE b \in DOMAIN BucketLines : BucketLines[b].text = line.text
    ELSE 0

\* The names the line with the given text lists, as a sequence.
TestsInLine(text) ==
    IF \E i \in 1..Len(summary_lines) : summary_lines[i].text = text
    THEN summary_lines[CHOOSE i \in 1..Len(summary_lines) :
                          summary_lines[i].text = text].tests
    ELSE <<>>

\* C12: bucketing.  For a catalog with unique test names, each of the four lines
\* names exactly the tests whose record has the line's status, in catalog order;
\* a line is there iff some test has its status; the lines come in the order
\* abnormal, borderline, normal, not performed, each at most once; and a test with
\* any other status is named in no line.
C12_Bucketing ==
    (Done /\ UniqueNames) =>
        /\ \A b \in DOMAIN BucketLines :
              /\ TestsInLine(BucketLines[b].text) = NamesWithStatus(BucketLines[b].status)
              /\ (\E i \in 1..Len(summary_lines) :
                      summary_lines[i].text = BucketLines[b].text)
                     <=> NamesWithStatus(BucketLines[b].status) # <<>>
        /\ \A i \in 1..Len(summary_lines), j \in 1..Len(summary_lines) :
              i < j => /\ LineRank(summary_lines[i]) > 0
                       /\ LineRank(summary_lines[i]) < LineRank(summary_lines[j])
        /\ \A n \in CatalogNames :
              /\ Cardinality({b \in DOMAIN BucketLines :
                                 n \in NamesInLine(BucketLines[b].text)}) <= 1
              /\ StatusOf(n) \notin BucketStatuses =>
                     \A i \in 1..Len(summary_lines) :
                        \A k \in 1..Len(summary_lines[i].tests) :
                           summary_lines[i].tests[k] # n

\* C12 witness: the catalog lists Calcium and Sodium in one category, Glucose
\* and Hemoglobin in the next; Hemoglobin " 5 " is red, Glucose 6.1 yellow, Sodium
\* 145 green and Calcium has no value.  The summary has the four lines, abnormal,
\* borderline, normal, not performed, against the order of the catalog.
C12_Witness ==
    /\ Done
    /\ UniqueNames
    /\ Len(healthy_data.categories) = 2
    /\ [i \in 1..Len(TestsOfCatalog) |-> TestsOfCatalog[i].name]
          = <<Calcium, Sodium, Glucose, Hemoglobin>>
    /\ raw_data = (Hemoglobin :> <<" ", "5", " ">>) @@ (Glucose :> <<"6", ".", "1">>)
                     @@ (Sodium :> <<"1", "4", "5">>)
    /\ StatusOf(Glucose) = "yellow"
    /\ summary_lines = <<Line("Abnormal results found in: ", <<Hemoglobin>>),
                         Line("Slightly outside healthy range: ", <<Glucose>>),
                         Line("Within healthy range: ", <<Sodium>>),
                         Line("Tests not performed: ", <<Calcium>>)>>

\* The statuses the loop gave to the catalog's tests, one per test visited.
TestStatuses == {calls[i].status : i \in 1..Len(calls)}

\* C13: no-data line.  The summary is the single line "No valid test data
\* provided." iff no catalog test was given status red, yellow, green or empty;
\* in every other case no line of the summary has that text.
C13_NoDataLine ==
    Done =>
        /\ summary_lines = <<NoDataLine>> <=> TestStatuses \cap BucketStatuses = {}
        /\ TestStatuses \cap BucketStatuses # {} =>
               \A i \in 1..Len(summary_lines) : summary_lines[i].text # NoDataLine.text

\* C13 witness: a catalog of two tests, one with a value that is not a number and
\* one without any reference: neither is in a bucket and the summary is the fixed line.
C13_Witness ==
    /\ Done
    /\ Len(calls) = 2
    /\ TestStatuses = {"uncheckable", "check manually"}
    /\ summary_lines = <<NoDataLine>>

\* raw_data without the entries whose key is no catalog name.
CatalogEntries == [k \in DOMAIN raw_data \cap CatalogNames |-> raw_data[k]]

\* What analyze returns for the catalog on another raw mapping.
RunFor(raw) == Loop(TestsOfCatalog, raw, EmptyRun)

\* C18: non-catalog names have no influence.  The record map and the summary that
\* analyze returns are those it returns for the mapping cut down to the catalog's
\* names, so two mappings that agree on every catalog name give the same result;
\* an entry under any other key produces no record, and analyze does not raise.
C18_NonCatalogKeysIgnored ==
    Done =>
        /\ ~raised
        /\ status_dict = RunFor(CatalogEntries).status_dict
        /\ summary_lines = Summary(RunFor(CatalogEntries))
        /\ DOMAIN status_dict \subseteq CatalogNames

\* C18 witness: the catalog has Hemoglobin only; the mapping also holds "HGB" and
\* "Glucose" entries, which leave no trace: one record, Hemoglobin, green.
C18_Witness ==
    /\ Done
    /\ CatalogNames = {Hemoglobin}
    /\ DOMAIN raw_data = {Hemoglobin, HGB, Glucose}
    /\ raw_data[Glucose] = <<"a", "b", "c">>
    /\ DOMAIN status_dict = {Hemoglobin}
    /\ StatusOf(Hemoglobin) = "green"
    /\ ~raised

\* The record r holds the reference fields of the catalog test t as written.
CopiedFrom(r, t) ==
    /\ r.min = Get(t, "min", <<>>)
    /\ r.max = Get(t, "max", <<>>)
    /\ r.units = Get(t, "units", <<>>)
    /\ r.healthy_value = Get(t, "healthy_value", <<>>)

\* The raw input for n, trimmed; "" when the mapping has no entry for n.
TrimmedInput(n) == IF n \in DOMAIN raw_data THEN strip(raw_data[n]) ELSE <<>>

\* C24: record contents are a frame of the catalog.  In every record analyze
\* returns, min, max, units and healthy_value are those of a catalog test of that
\* name, as written ("" when omitted), and value is the trimmed raw input ("" when
\* absent), whatever the status.
C24_RecordFrame ==
    (Done /\ ~raised) =>
        \A n \in DOMAIN status_dict :
            /\ \E i \in 1..Len(TestsOfCatalog) :
                  TestsOfCatalog[i].name = n /\ CopiedFrom(status_dict[n], TestsOfCatalog[i])
            /\ status_dict[n].value = TrimmedInput(n)

\* C24 witness: Glucose with healthy value "4-6", max "x" and no min, raw input
\* " 5 ": green on the limits derived from the interval, and the record keeps
\* min "" and max "x" and holds the value "5".
C24_Witness ==
    /\ Done
    /\ Glucose \in DOMAIN status_dict
    /\ Glucose \in DOMAIN raw_data
    /\ raw_data[Glucose] = <<" ", "5", " ">>
    /\ status_dict[Glucose].healthy_value = <<"4", "-", "6">>
    /\ status_dict[Glucose].min = <<>>
    /\ status_dict[Glucose].max = <<"x">>
    /\ status_dict[Glucose].value = <<"5">>
    /\ StatusOf(Glucose) = "green"

-----------------------------------------------------------------------------
(* Properties of get_status_color (specification SpecColor) *)

\* get_status_color has been called (directly, or by analyze's try block).
Called == color \notin {"pending", "unused"}

\* The call was the one analyze makes, and status is what analyze stored.
Stored == status \notin {"pending", "unused", "not stored"}

\* The float h/2, as float() reads its numeral.
ClaimHalves == (0 - 20)..80
KnownNums == [h \in {x : x \in ClaimHalves} |-> FloatValue(SignedHalfStr(h))]
Num(h) == KnownNums[h]

\* The ways the pools write the interval lo/2 .. hi/2.
IntervalForms(lo, hi) ==
    {IntervalStr(lo, sep, hi) : sep \in Seps}
        \cup {Pad(IntervalStr(lo, Pad(<<EnDash>>), hi))}
        \cup (IF lo = 0 /\ hi = 6 THEN {<<"0", "-", "3">>} ELSE {})
        \cup (IF lo = 6 /\ hi = 8 THEN {<<"U+0663", "-", "U+0664">>} ELSE {})
        \cup (IF lo = 10 /\ hi = 20
              THEN {<<"5", "\r", "-", "1", "0">>,
                    <<"5", "U+2009", "-", "U+2009", "1", "0">>}
              ELSE {})

IntervalHalves == RefHalves \cup {6, 8}

\* The limits of the interval policy, computed in floats as the policy writes
\* them: d = high - low, hard limits low - 0.1*d and high + 0.1*d, warn limits
\* low + 0.1*d and high - 0.1*d, and the midpoint (low + high)/2.
IntervalLimits(low, high) ==
    [red_low |-> FloatSub(low, FloatMul(Tenth, FloatSub(high, low))),
     red_high |-> FloatAdd(high, FloatMul(Tenth, FloatSub(high, low))),
     warn_low |-> FloatAdd(low, FloatMul(Tenth, FloatSub(high, low))),
     warn_high |-> FloatSub(high, FloatMul(Tenth, FloatSub(high, low))),
     mid |-> Halved(FloatAdd(low, high))]

KnownIntervalLimits ==
    [p \in {<<lo, hi>> : lo \in IntervalHalves, hi \in IntervalHalves} |->
        IntervalLimits(Num(p[1]), Num(p[2]))]

\* The interval policy: red at or beyond the hard limits, yellow at or beyond the
\* warn limits.
IntervalStatus(v, lim) ==
    IF FloatLE(v, lim.red_low) \/ FloatGE(v, lim.red_high) THEN "red"
    ELSE IF FloatLE(v, lim.warn_low) \/ FloatGE(v, lim.warn_high) THEN "yellow"
    ELSE "green"

\* The intervals of the pools: the string, and its bounds in halves.
IntervalCases ==
    UNION {{[s |-> f, lo |-> lo, hi |-> hi] : f \in IntervalForms(lo, hi)} :
              lo \in IntervalHalves, hi \in IntervalHalves}

\* C2: interval policy.  For a healthy value "low-high" (hyphen or en dash) with
\* low < high the result is the interval policy's status of the value, whatever
\* the test's min and max strings and whatever the tolerance argument; the
\* midpoint of the interval is green and the lower hard limit is red.
C2_IntervalPolicy ==
    Called =>
        \A c \in IntervalCases :
            (c.lo < c.hi /\ healthy_str = c.s) =>
                /\ color = IntervalStatus(user_val_num, KnownIntervalLimits[<<c.lo, c.hi>>])
                /\ FloatEQ(user_val_num, KnownIntervalLimits[<<c.lo, c.hi>>].mid)
                      => color = "green"
                /\ FloatEQ(user_val_num, KnownIntervalLimits[<<c.lo, c.hi>>].red_low)
                      => color = "red"

\* C2 witness: "5-10" written with an en dash, value 4.5 = low - 0.1*d, called with
\* tolerance 0.25 on a test that has min "2" and max "12": red.
C2_Witness ==
    /\ Called
    /\ healthy_str = IntervalStr(10, <<EnDash>>, 20)
    /\ user_val_num = Num(9)
    /\ tolerance # DefaultTolerance
    /\ min_str = SignedHalfStr(4)
    /\ max_str = SignedHalfStr(24)
    /\ color = "red"

\* The healthy value is written as an interval whose first bound is not below its
\* second.
MalformedInterval == \E c \in IntervalCases : c.lo >= c.hi /\ healthy_str = c.s

\* C23: malformed intervals are not intervals.  For a healthy value "low-high" with
\* low >= high the status analyze stores for a numeric value is "uncheckable", not
\* a colour.
C23_MalformedIntervalUncheckable == (Stored /\ MalformedInterval) => status = "uncheckable"

\* The reference the call derived from its strings.
CalledReference == ReferenceOf(healthy_str, min_str, max_str, tolerance)

\* C3: inclusive boundaries.  Whenever the reference yields limits, a value equal
\* to a hard limit is red, and a value equal to a warn limit that lies strictly
\* between the hard limits is yellow.
C3_InclusiveBoundaries ==
    (Called /\ CalledReference.form \in {"point", "range"}) =>
        /\ (/\ CalledReference.min_num # None
            /\ FloatEQ(user_val_num, Val(CalledReference.min_num))) => color = "red"
        /\ (/\ CalledReference.max_num # None
            /\ FloatEQ(user_val_num, Val(CalledReference.max_num))) => color = "red"
        /\ (/\ CalledReference.min_num # None
            /\ CalledReference.max_num # None
            /\ \/ FloatEQ(user_val_num, CalledReference.lower_warn)
               \/ FloatEQ(user_val_num, CalledReference.upper_warn)
            /\ FloatLT(Val(CalledReference.min_num), user_val_num)
            /\ FloatLT(user_val_num, Val(CalledReference.max_num))) => color = "yellow"

\* C3 witness: "<10" has hard limits 0 and 15 and warn limits 9 and 11; the value 9
\* is on the lower warn limit and is yellow.
C3_Witness ==
    /\ Called
    /\ healthy_str = IneqStr("<", 20)
    /\ tolerance = DefaultTolerance
    /\ user_val_num = Num(18)
    /\ CalledReference.lower_warn = user_val_num
    /\ FloatLT(Val(CalledReference.min_num), user_val_num)
    /\ FloatLT(user_val_num, Val(CalledReference.max_num))
    /\ color = "yellow"

\* Healthy strings of the pool from which no interval, inequality or plain number
\* can be parsed, and min / max strings that are empty or not a number.
UnusableHealthy == {<<>>, <<"x">>, <<".">>, <<"5", "-">>,
                    <<"5", "-", "1", "0", "-", "2", "0">>, <<"<", "x">>, <<">">>}
UnusableLimit == {<<>>, <<"x">>}

NoUsableReference ==
    healthy_str \in UnusableHealthy /\ min_str \in UnusableLimit /\ max_str \in UnusableLimit

\* C6: no usable reference gives uncheckable.  When nothing can be parsed from min,
\* max and healthy value, the status analyze stores for a numeric value is
\* "uncheckable".
C6_NoReferenceUncheckable == (Stored /\ NoUsableReference) => status = "uncheckable"

\* The plain numerals of the pool with the number (in halves) each denotes.
PlainForms(x) ==
    {HalfStr(x)} \cup (IF x = 10 THEN {<<"5", ".">>} ELSE {})
                 \cup (IF x = 1 THEN {<<".", "5">>} ELSE {})
                 \cup (IF x = 6 THEN {<<"U+0663">>} ELSE {})

PlainHalves == RefHalves \cup {1, 6}

LimitForms(h) ==
    {SignedHalfStr(h), Pad(SignedHalfStr(h))}
        \cup (IF h = 20 THEN {<<"1", "e", "1">>} ELSE {})

LimitHalves == MinHalves \cup MaxHalves \cup {20}

\* The warn limits around a centre: centre*(1 - t) and centre*(1 + t).
WarnBand(centre, t) ==
    [lower |-> FloatMul(centre, FloatSub(One, t)),
     upper |-> FloatMul(centre, FloatAdd(One, t))]

\* (min + max)/2
Midpoint(mn, mx) == Halved(FloatAdd(Num(mn), Num(mx)))

\* The centres the policies are stated for: the numbers of the pools, the
\* midpoints of their limits, and the floats that are no finite number.
Centres ==
    {Num(h) : h \in ClaimHalves}
        \cup {Midpoint(mn, mx) : mn \in LimitHalves, mx \in LimitHalves}
        \cup {Inf(1), NaN}

KnownWarnBands ==
    [k \in {<<c, t>> : c \in Centres, t \in Tolerances} |-> WarnBand(k[1], k[2])]

\* The decision rule: red at or beyond the hard limits, yellow at or beyond
\* centre*(1 - t) and centre*(1 + t).
PointStatus(v, min, max, centre, t) ==
    IF FloatLE(v, min) \/ FloatGE(v, max) THEN "red"
    ELSE IF \/ FloatLE(v, KnownWarnBands[<<centre, t>>].lower)
            \/ FloatGE(v, KnownWarnBands[<<centre, t>>].upper) THEN "yellow"
    ELSE "green"

\* C8: plain-number policy.  For a plain non-negative healthy number X with numeric
\* min and max the result is PointStatus(value, min, max, X, t), t = 0.10 by
\* default; with neither min nor max, analyze stores "uncheckable" for every value.
C8_PlainNumberPolicy ==
    \A x \in PlainHalves :
        healthy_str \in PlainForms(x) =>
            /\ Called =>
                  \A mn \in LimitHalves, mx \in LimitHalves :
                      (min_str \in LimitForms(mn) /\ max_str \in LimitForms(mx)) =>
                          color = PointStatus(user_val_num, Num(mn), Num(mx), Num(x),
                                              tolerance)
            /\ (Stored /\ min_str = <<>> /\ max_str = <<>>) => status = "uncheckable"

\* C8 witness: healthy "3", min "2", max "12", value 3.3 as analyze classifies it:
\* 3 * 1.10 is the float above 3.3, and the value is green.
C8_Witness ==
    /\ Stored
    /\ healthy_str = <<"3">>
    /\ min_str = SignedHalfStr(4)
    /\ max_str = SignedHalfStr(24)
    /\ tolerance = DefaultTolerance
    /\ user_val_num = FloatValue(<<"3", ".", "3">>)
    /\ status = "green"

\* The inequalities of the pool with the number (in halves) each names.
IneqForms(op, x) ==
    (IF x >= 0 THEN {IneqStr(op, x)} ELSE {})
        \cup (IF op = "<" /\ x = 10 THEN {<<"<", " ", "5">>} ELSE {})
        \cup (IF op = "<" /\ x = 20 THEN {<<"<", "1", "e", "1">>} ELSE {})
        \cup (IF op = "<" /\ x = 0 - 10 THEN {<<"<", "-", "5">>} ELSE {})

IneqNumbers == RefHalves \cup {0 - 10}

\* "<X" and ">X" with an X that is a float and no finite number.
IneqSpecials ==
    {[s |-> <<"<", "i", "n", "f">>, op |-> "<", x |-> Inf(1)],
     [s |-> <<">", "n", "a", "n">>, op |-> ">", x |-> NaN]}

\* The hard limits of "<X" and ">X": 0 and 1.5*X, 0.5*X and 10*X.
IneqLimits(op, x) ==
    IF op = "<" THEN [min |-> Zero, max |-> FloatMul(OneAndHalf, x)]
                ELSE [min |-> FloatMul(Half, x), max |-> FloatMul(Ten, x)]

KnownIneqLimits ==
    [k \in {<<op, c>> : op \in {"<", ">"}, c \in Centres} |-> IneqLimits(k[1], k[2])]

IneqStatus(op, v, x, t) ==
    PointStatus(v, KnownIneqLimits[<<op, x>>].min, KnownIneqLimits[<<op, x>>].max, x, t)

\* C9: inequality policy.  For "<X" the hard limits are 0 and 1.5*X, for ">X" they
\* are 0.5*X and 10*X, whatever the test's own min and max; the warn limits are
\* X*(1 - t) and X*(1 + t); "<" or ">" followed by no number gives the
\* no-reference status.
C9_InequalityPolicy ==
    Called =>
        /\ \A op \in {"<", ">"}, x \in IneqNumbers :
              healthy_str \in IneqForms(op, x) =>
                  color = IneqStatus(op, user_val_num, Num(x), tolerance)
        /\ \A c \in IneqSpecials :
              healthy_str = c.s => color = IneqStatus(c.op, user_val_num, c.x, tolerance)
        /\ healthy_str \in {<<"<", "x">>, <<">">>} => color = NoReferenceStatus

\* C9 witness: ">5" on a test with min "2" and max "12": the value 12, on the test's
\* own max, is judged against the limits 2.5 and 50 of the inequality and is yellow.
C9_Witness ==
    /\ Called
    /\ healthy_str = IneqStr(">", 10)
    /\ min_str = SignedHalfStr(4)
    /\ max_str = SignedHalfStr(24)
    /\ user_val_num = Num(24)
    /\ color = "yellow"

IsRegressionCase ==
    /\ Called
    /\ healthy_str = IneqStr("<", 70)
    /\ user_val_num = FloatOfInt(52)

\* C10 as stated: reference "<35" and value 52 classify as red.
C10_RegressionRed == IsRegressionCase => color = "red"

\* C10: regression scenario, amended.  Reference "<35" and value 52 classify as
\* yellow: 52 is below the hard limit 1.5*35 = 52.5 and above the warn limit
\* 35*1.10 = 38.5.
C10_RegressionYellow == IsRegressionCase => color = "yellow"

\* C10 witness: the scenario as analyze classifies it, on a test with no min and max.
C10_Witness ==
    /\ IsRegressionCase
    /\ Stored
    /\ min_str = <<>>
    /\ max_str = <<>>
    /\ status = "yellow"

\* The test has no healthy value, min is mn/2 and max is mx/2, mn < mx.
MinMaxOnly(mn, mx) ==
    /\ healthy_str = <<>>
    /\ min_str \in LimitForms(mn)
    /\ max_str \in LimitForms(mx)
    /\ mn < mx

\* C22: min/max-only policy.  With no healthy value and numeric min < max the
\* centre is m = (min + max)/2; the status is red iff value <= min or value >= max,
\* otherwise yellow iff value <= m*(1 - t) or value >= m*(1 + t), t = 0.10 by
\* default, otherwise green.
C22_MinMaxOnlyPolicy ==
    Called =>
        \A mn \in LimitHalves, mx \in LimitHalves :
            MinMaxOnly(mn, mx) =>
                color = PointStatus(user_val_num, Num(mn), Num(mx), Midpoint(mn, mx),
                                    tolerance)

\* C22 witness: min "2", max "4", no healthy value, default tolerance; the value
\* 3.3 lies below the warn limit 3 * 1.10, the float above 3.3: green; analyze
\* stores that status.
C22_Witness ==
    /\ Stored
    /\ MinMaxOnly(4, 8)
    /\ tolerance = DefaultTolerance
    /\ user_val_num = FloatValue(<<"3", ".", "3">>)
    /\ status = "green"

\* C26: the centre of the range is healthy.  With numeric min < max and no healthy
\* value, a measured value equal to the midpoint (min + max)/2 is green, also when
\* the midpoint is zero or negative.
C26_MidpointGreen ==
    Called =>
        \A mn \in LimitHalves, mx \in LimitHalves :
            (MinMaxOnly(mn, mx) /\ FloatEQ(user_val_num, Midpoint(mn, mx)))
                => color = "green"

Colours == {"green", "yellow", "red"}

\* The status analyze would store for the value 0 measured against the strings of
\* the call.
StatusAtZero ==
    StatusOfOutcome(get_status_color(Zero, healthy_str, min_str, max_str, tolerance))

\* C25: checkability depends only on the reference.  For fixed min, max and
\* healthy-value strings every numeric value gets a colour or every numeric value
\* gets a no-reference status: the stored status is a colour exactly when the
\* status of the value 0 against the same strings is one.
C25_CheckabilityByReference ==
    Stored => (status \in Colours <=> StatusAtZero \in Colours)

-----------------------------------------------------------------------------
(* Properties of _find_best_match (specification SpecResolve) *)

\* _find_best_match has returned.
Resolved == match # NotCalled

\* The input as the resolver compares it: lower-cased and trimmed.
CleanInput == strip(lower(input_name))

\* The positions of the targets that equal the input ignoring case.
ExactHits == {i \in 1..Len(target_keys) : lower(target_keys[i]) = CleanInput}

First(S) == CHOOSE i \in S : \A j \in S : i <= j

AliasHit == CleanInput \in DOMAIN alias_map

\* The token-sort score of the input against the i-th target.
ScoreOf(i) == token_sort_ratio(input_name, target_keys[i])

\* The scores of the targets from the i-th on, in catalog order.
RECURSIVE ScoresFrom(_)
ScoresFrom(i) ==
    IF i > Len(target_keys) THEN <<>> ELSE <<ScoreOf(i)>> \o ScoresFrom(i + 1)

TargetScores == ScoresFrom(1)

\* The positions of the scores no other score exceeds.
BestOf(scores) ==
    {i \in DOMAIN scores : \A j \in DOMAIN scores : ~ScoreGreater(scores[j], scores[i])}

\* The positions of the targets no other target outscores.
BestTargets == BestOf(TargetScores)

\* The fuzzy step decides: neither the exact match nor the alias table hit.
FuzzyConsulted == Resolved /\ ExactHits = {} /\ ~AliasHit

FuzzyAnswersFor(scores, c) ==
    IF BestOf(scores) # {} /\ ScoreAtLeast(scores[First(BestOf(scores))], c)
    THEN {target_keys[i] : i \in BestOf(scores)}
    ELSE {NoMatch}

\* The fuzzy step's answer for the cutoff c: a best-scoring target when the best
\* score is at least c, and None otherwise.
FuzzyAnswers(c) == FuzzyAnswersFor(TargetScores, c)

\* C14: resolver precedence.  If some target equals the trimmed input ignoring
\* case, the first such target in catalog order is returned, whatever the alias
\* table and the scores; otherwise, if the trimmed lower-cased input is a key of
\* the alias table, the mapped value is returned as it is, member of the targets
\* or not; only otherwise is the result that of fuzzy matching.
C14_ResolverPrecedence ==
    Resolved =>
        IF ExactHits # {} THEN match = target_keys[First(ExactHits)]
        ELSE IF AliasHit THEN match = alias_map[CleanInput]
        ELSE match \in FuzzyAnswers(FuzzyCutoff)

\* C14 witness: the report says "HEMOGLOBIN "; the targets list "hemoglobin" before
\* "Hemoglobin" and the alias table maps "hemoglobin" to Glucose: the first target
\* is returned.
C14_Witness ==
    /\ Resolved
    /\ input_name = <<"H", "E", "M", "O", "G", "L", "O", "B", "I", "N", " ">>
    /\ target_keys = <<lower(Hemoglobin), Hemoglobin>>
    /\ AliasHit
    /\ alias_map[CleanInput] = Glucose
    /\ match = lower(Hemoglobin)

\* C15 as stated: when neither the exact match nor the alias table hits, the
\* best-scoring target is returned iff its score is at least 85.
C15_CutoffIs85 == FuzzyConsulted => match \in FuzzyAnswers(85)

\* C15: fuzzy cutoff boundary, amended.  When neither the exact match nor the alias
\* table hits, the best-scoring target is returned iff its score is at least 90;
\* a best score of exactly 90 resolves and any lower score, 85 included, gives None.
C15_CutoffIs90 == FuzzyConsulted => match \in FuzzyAnswers(FuzzyCutoff)

\* C15 witness: "Hemoglobim" against the one target "Hemoglobin" scores exactly 90
\* and resolves.
C15_Witness ==
    /\ FuzzyConsulted
    /\ input_name = <<"H", "e", "m", "o", "g", "l", "o", "b", "i", "m">>
    /\ target_keys = <<Hemoglobin>>
    /\ ScoreEqual(ScoreOf(1), Score(FuzzyCutoff, 1))
    /\ match = Hemoglobin

\* C16: deterministic tie-break.  When the fuzzy step decides and the best score
\* passes the cutoff, the target returned is the first in catalog order among
\* those with the best score.
C16_TieBreakFirst ==
    (FuzzyConsulted /\ FuzzyAnswers(FuzzyCutoff) # {NoMatch}) =>
        match = target_keys[First(BestTargets)]

\* C16 witness: "emoglobin" scores 18/19 against both "hemoglobin" and
\* "Hemoglobin"; the lower-case name is listed first and is returned.
C16_Witness ==
    /\ FuzzyConsulted
    /\ input_name = <<"e", "m", "o", "g", "l", "o", "b", "i", "n">>
    /\ target_keys = <<lower(Hemoglobin), Hemoglobin>>
    /\ BestTargets = {1, 2}
    /\ ScoreEqual(ScoreOf(1), Score(100 * 18, 19))
    /\ match = lower(Hemoglobin)

\* The name n resolved once more by the same Normalizer.
ResolveAgain(n) == find_best_match(n, target_keys, alias_map)

\* Resolving n hits the exact-match step, which returns n.
ExactStepReturns(n) == ExactMatch(strip(lower(n)), target_keys) = n

\* C17 as stated: whenever resolution returns a name n, resolving n returns n
\* itself, by the exact-match step.
C17_Idempotent ==
    (Resolved /\ match # NoMatch) =>
        ResolveAgain(match) = match /\ ExactStepReturns(match)

\* The name is a target, has no blank at either end, and no target listed before
\* it equals it ignoring case.
CanonicalTarget(n) ==
    /\ \E i \in 1..Len(target_keys) :
          /\ target_keys[i] = n
          /\ \A j \in 1..(i - 1) : lower(target_keys[j]) # lower(n)
    /\ strip(n) = n

\* C17: resolver idempotence, amended.  Whenever resolution returns a name n that
\* is one of the targets, is written without leading or trailing whitespace and
\* is the first target with its spelling ignoring case, resolving n returns n
\* itself, by the exact-match step.
C17_IdempotentOnTargets ==
    (Resolved /\ match # NoMatch /\ CanonicalTarget(match)) =>
        ResolveAgain(match) = match /\ ExactStepReturns(match)

\* C17 witness: "Hemoglobim" resolved by the fuzzy step to the target "Hemoglobin",
\* which resolves to itself.
C17_Witness ==
    /\ FuzzyConsulted
    /\ input_name = <<"H", "e", "m", "o", "g", "l", "o", "b", "i", "m">>
    /\ match = Hemoglobin
    /\ CanonicalTarget(match)
    /\ ResolveAgain(match) = match

-----------------------------------------------------------------------------
(* Properties of normalize followed by analyze (specification SpecPipeline) *)

\* The name the k-th entry of the report resolves to.
ResolvedName(k) == find_best_match(extracted_data[k].name, target_keys, alias_map)

\* The k-th entry carries a value and its name resolves to a catalog test.
Carries(k) ==
    /\ extracted_data[k].value # NoneValue
    /\ ResolvedName(k) \in CatalogNames

\* The value of the k-th entry as a string without surrounding whitespace.
CarriedValue(k) == strip(str(extracted_data[k].value))

\* The catalog test with name n (the last one listed, when the name is repeated).
TestNamed(n) ==
    TestsOfCatalog[CHOOSE i \in 1..Len(TestsOfCatalog) :
                      /\ TestsOfCatalog[i].name = n
                      /\ \A j \in (i + 1)..Len(TestsOfCatalog) : TestsOfCatalog[j].name # n]

\* classify(v, reference of n), as a stored status.
ClassifiedAs(n, v) == StatusOfOutcome(Classify(TestNamed(n), v))

\* The text of the summary line of a status.
LineTextOf(st) ==
    BucketLines[CHOOSE b \in DOMAIN BucketLines : BucketLines[b].status = st].text

\* The record of n holds value v with its classification, and n is named in the
\* summary line of that status (for the statuses that have a line).
RecordedAs(n, v) ==
    /\ status_dict[n].value = v
    /\ StatusOf(n) = ClassifiedAs(n, v)
    /\ StatusOf(n) \in BucketStatuses => n \in NamesInLine(LineTextOf(StatusOf(n)))

\* C11 as stated: every entry whose name resolves to a catalog test n and that
\* carries a value v ends, after normalize and analyze, in the record of n with
\* value v and status classify(v, reference of n), n being named in the summary
\* line of that status.
C11_EveryEntryRecorded ==
    Done =>
        \A k \in 1..Len(extracted_data) :
            Carries(k) => RecordedAs(ResolvedName(k), CarriedValue(k))

\* No later entry of the report that carries a value resolves to the same name.
LastFor(k) ==
    \A j \in (k + 1)..Len(extracted_data) :
        extracted_data[j].value = NoneValue \/ ResolvedName(j) # ResolvedName(k)

\* C11: end-to-end resolution and classification, amended.  An entry whose name
\* resolves to a catalog test n and that carries a value v, and after which no
\* other entry with a value resolves to n, ends in the record of n with value v
\* (as a string, trimmed) and status classify(v, reference of n), n being named
\* in the summary line of that status when the status is red, yellow, green or
\* empty.
C11_LastEntryRecorded ==
    Done =>
        \A k \in 1..Len(extracted_data) :
            (Carries(k) /\ LastFor(k)) => RecordedAs(ResolvedName(k), CarriedValue(k))

\* C11 witness: catalog {Hemoglobin, min "120", max "150"}, alias haemoglobin ->
\* Hemoglobin, report {"Haemoglobin": "145"}: the record of Hemoglobin has value
\* "145" and status green, and the within-healthy-range line names Hemoglobin.
C11_Witness ==
    /\ Done
    /\ Len(TestsOfCatalog) = 1
    /\ Get(TestsOfCatalog[1], "min", <<>>) = <<"1", "2", "0">>
    /\ Get(TestsOfCatalog[1], "max", <<>>) = <<"1", "5", "0">>
    /\ extracted_data = <<Entry(Haemoglobin, StrValue(<<"1", "4", "5">>))>>
    /\ lower(Haemoglobin) \in DOMAIN alias_map
    /\ status_dict[Hemoglobin].value = <<"1", "4", "5">>
    /\ StatusOf(Hemoglobin) = "green"
    /\ summary_lines = <<Line("Within healthy range: ", <<Hemoglobin>>)>>

\* normalize has returned for the report in extracted_data.
Normalized == pc \in {"normalized", "done"}

\* The k-th entry has a value and its name resolves.
Contributes(k) ==
    extracted_data[k].value # NoneValue /\ Truthy(ResolvedName(k))

\* The last entry of the report that contributes the name n.
LastContributing(n) ==
    CHOOSE k \in 1..Len(extracted_data) :
        /\ Contributes(k) /\ ResolvedName(k) = n
        /\ \A j \in (k + 1)..Len(extracted_data) : ~(Contributes(j) /\ ResolvedName(j) = n)

\* C27: normalize's merge rule.  The keys of the returned mapping are exactly the
\* names _find_best_match returns for the entries that have a value and resolve
\* (an entry whose value is None gives no key even if its name resolves, an
\* unresolved name gives none), and the value of a key is that of the last such
\* entry in input order, as a string.
C27_NormalizeMergeRule ==
    Normalized =>
        /\ DOMAIN normalized_data =
              {ResolvedName(k) : k \in {j \in 1..Len(extracted_data) : Contributes(j)}}
        /\ \A n \in DOMAIN normalized_data :
              normalized_data[n] = str(extracted_data[LastContributing(n)].value)

\* C27 witness: the report {"Haemoglobin": 130, "Hemoglobin": None} on a catalog
\* with Hemoglobin and an alias file that knows Haemoglobin: both names resolve
\* to Hemoglobin, the second entry is skipped, and the one key, Hemoglobin, has
\* the value "130" of the first.
C27_Witness ==
    /\ Normalized
    /\ extracted_data = <<Entry(Haemoglobin, IntValue(130)), Entry(Hemoglobin, NoneValue)>>
    /\ \A k \in 1..2 : ResolvedName(k) = Hemoglobin
    /\ DOMAIN normalized_data = {Hemoglobin}
    /\ normalized_data[Hemoglobin] = <<"1", "3", "0">>

-----------------------------------------------------------------------------
(* Properties of concurrent invocations (specification SpecConcurrent) *)

\* What the call of a thread returns when it runs alone on the shared objects.
Alone(th) ==
    IF th.op = "analyze"
    THEN AnalyzeResult(Loop(CatalogTests(healthy_data.categories), th.arg, EmptyRun))
    ELSE IF th.op = "normalize"
    THEN normalize(th.arg, target_keys, alias_map, <<>>)
    ELSE find_best_match(th.arg, target_keys, alias_map)

\* No step writes target_keys, alias_map or healthy_data, nor the argument of a
\* call in progress.
SharedStateKept ==
    /\ UNCHANGED <<healthy_data, target_keys, alias_map>>
    /\ \A t \in Threads : threads[t].pc # "idle" => threads'[t].arg = threads[t].arg

ReturnsAsAlone == \A t \in Threads : threads[t].pc = "returned" => threads[t].result = Alone(threads[t])

\* C19: no shared mutable state.  Under every interleaving of the threads' steps,
\* no step modifies target_keys, alias_map, healthy_data or a call's argument, and
\* every call that has returned returned what it returns when run alone.
C19_NoSharedMutableState == [][SharedStateKept]_vars /\ []ReturnsAsAlone

\* C19 witness: two threads have returned after interleaved steps, one from
\* normalize with two resolved entries, the other from analyze with two records.
C19_Witness ==
    /\ threads[1].pc = "returned" /\ threads[1].op = "normalize"
    /\ Len(threads[1].arg) = 2
    /\ threads[1].result = (Hemoglobin :> <<"1", "3", "0">>)
    /\ threads[2].pc = "returned" /\ threads[2].op = "analyze"
    /\ DOMAIN threads[2].result.status_dict = {Hemoglobin, Glucose}

-----------------------------------------------------------------------------
(* Properties of PDFParser (specification SpecParser) *)

\* The pairs PDFParser.auto_params holds.
StoredPairs == objects[auto_params]

IsParse(call, how) == call.op = "parse" /\ call.ended = how

\* parse returned a dict of its own that holds what auto_params holds.
ReturnedCopyOfStored ==
    /\ returned' # 0
    /\ returned' # auto_params'
    /\ objects'[returned'] = StoredPairs'

\* A parse that waits in its dialog has changed nothing, so that a call no
\* other call runs into leaves auto_params, up to its last step, as it was.
WaitKeeps ==
    IsParse(last_call', "exec") => UNCHANGED <<objects, auto_params, returned>>

\* A cancelled parse leaves auto_params as it was and returns a copy of it.
CancelKeeps == IsParse(last_call', "cancelled") => StoredPairs' = StoredPairs /\ ReturnedCopyOfStored

\* An accepted parse keeps every stored key, changes the value of the keys
\* parsed again only, adds the parsed pairs, and returns a copy.
AcceptMerges ==
    IsParse(last_call', "accepted") =>
        /\ DOMAIN StoredPairs' = DOMAIN StoredPairs \cup DOMAIN parsed'
        /\ \A k \in DOMAIN StoredPairs \ DOMAIN parsed' : StoredPairs'[k] = StoredPairs[k]
        /\ \A k \in DOMAIN parsed' : StoredPairs'[k] = parsed'[k]
        /\ ReturnedCopyOfStored

\* A parse of a path that does not exist raises FileNotFoundError and leaves
\* auto_params as it was.
MissingRaises ==
    (last_call'.op = "parse" /\ last_call'.filepath \notin ExistingFiles) =>
        /\ last_call'.ended = "FileNotFoundError"
        /\ StoredPairs' = StoredPairs
        /\ UNCHANGED <<objects, returned>>

\* Only clear_auto_params removes keys, and it removes them all.
OnlyClearRemoves ==
    /\ ~(DOMAIN StoredPairs \subseteq DOMAIN StoredPairs') => last_call'.op = "clear_auto_params"
    /\ last_call'.op = "clear_auto_params" => StoredPairs' = <<>>

\* What the caller does to a returned dict leaves auto_params as it was.
CallerWritesKept ==
    last_call'.op \in {"caller sets", "caller clears"} => StoredPairs' = StoredPairs

\* C20: auto_params persists until cleared.  Over every sequence of parse and
\* clear_auto_params calls: a cancelled parse changes nothing and returns a copy;
\* an accepted parse keeps the stored keys and merges the parsed pairs; a parse of
\* a missing path raises FileNotFoundError and changes nothing; only
\* clear_auto_params removes keys, all of them; writes of the caller to a returned
\* dict never reach auto_params.
C20_AutoParamsPersist ==
    [][WaitKeeps /\ CancelKeeps /\ AcceptMerges /\ MissingRaises /\ OnlyClearRemoves
         /\ CallerWritesKept]_vars

\* C20 witness: a second accepted parse has overwritten Hemoglobin and kept the
\* Glucose pair of the first, and the caller has emptied the dict it got.
C20_Witness ==
    /\ last_call.op = "caller clears"
    /\ parsed = (Hemoglobin :> <<"1", "3", "0">>)
    /\ StoredPairs = (Hemoglobin :> <<"1", "3", "0">> @@ Glucose :> <<"5", ".", "5", "%">>)
    /\ returned # 0 /\ objects[returned] = <<>>

-----------------------------------------------------------------------------
(* Properties of PDFSelectionDialog (specification SpecDialog) *)

\* How often the rectangle r occurs in the sequence rects.
Occurrences(r, rects) == Cardinality({i \in 1..Len(rects) : rects[i] = r})

\* How often extract_selected_regions_text processed the rectangle r on page p.
Processed(r, p) ==
    Cardinality({i \in 1..Len(dialog.extracted) :
                    dialog.extracted[i] = [page_idx |-> p, rect |-> r]})

\* C21: Done extracts every selection.  After Done, the rectangles
\* extract_selected_regions_text processed on each page are those drawn on it
\* (recorded, that is larger than 5 by 5) and not deleted, the page shown when
\* Done was pressed included; no deleted rectangle is processed.
C21_DoneExtractsEverySelection ==
    dialog.state = "extracted" =>
        \A p \in DOMAIN drawn :
            \A r \in Drags : Processed(r, p) = Occurrences(r, drawn[p])

\* The rectangles the dialog dlg holds for page p: the canvas's for the page
\* shown, the stored ones for another page.
SelectionsOf(dlg, p) ==
    IF p = dlg.current_page_index THEN selections(dlg.canvas)
    ELSE GetItem(dlg.page_selections, p, <<>>)

\* The canvas shows the rectangles drawn on the page shown and not deleted, in
\* drawing order, and every other page keeps its own.
ShownAsDrawn ==
    ExecRunning => \A p \in DOMAIN drawn : SelectionsOf(dialog, p) = drawn[p]

\* A step changes neither the page shown nor the rectangles of any page.
SelectionsKept ==
    /\ dialog'.current_page_index = dialog.current_page_index
    /\ \A p \in DOMAIN drawn : SelectionsOf(dialog', p) = SelectionsOf(dialog, p)

\* Previous on the first page, Next on the last page and Delete Last Selection
\* on a page without rectangles change nothing.
EdgePressesKeep ==
    /\ (dialog'.event = "prev" /\ dialog.current_page_index = 0) => SelectionsKept
    /\ (dialog'.event = "next" /\ dialog.current_page_index = dialog.page_count - 1)
          => SelectionsKept
    /\ (dialog'.event = "delete" /\ selections(dialog.canvas) = <<>>) => SelectionsKept

\* C28: selections survive page navigation.  After any sequence of draw,
\* delete-last, Previous and Next, the canvas of the page shown holds exactly the
\* rectangles drawn on that page and not deleted, in drawing order; Previous on
\* the first page and Next on the last page change neither the page nor any
\* selection, and delete-last on a page without selections changes nothing.
C28_SelectionsSurviveNavigation == []ShownAsDrawn /\ [][EdgePressesKeep]_vars

\* C28 witness: two rectangles drawn on page 0 of a two-page document, Next, then
\* Previous: page 0 is shown again with both rectangles in drawing order.
C28_Witness ==
    /\ DialogOpen
    /\ dialog.event = "prev"
    /\ dialog.page_count = 2
    /\ dialog.current_page_index = 0
    /\ HasKey(dialog.page_selections, 1)
    /\ selections(dialog.canvas) = <<QRect(40, 12), QRect(6, 6)>>
    /\ drawn[0] = <<QRect(40, 12), QRect(6, 6)>>

-----------------------------------------------------------------------------
(* Properties of BloodAnalyzerApp (specification SpecApp) *)

\* The last handler was Export and it called the exporter.
ExporterInvoked == ui_effect.op = "export" /\ ui_effect.did \in {"exported", "export failed"}

\* No Submit completes: analyze is called with a keyword it does not take, so
\* nothing is ever analysed and Export never gets past its warning.
NothingAnalysed ==
    Shown => /\ app.analysed = <<>>
             /\ ~fresh
             /\ \A j \in 1..Len(app.modal) : app.modal[j].kind # "getSaveFileName"

====
